---- MODULE Spec2Model ----
(***************************************************************************)
(* State-machine model of the news RAG service:                            *)
(*   - RAGSystem (app/rag_system.py): article store, chunk rows, vector    *)
(*     index, search cache, search_articles;                               *)
(*   - the queue RPC between callers (app/client.py, web_interface.py,     *)
(*     api_server.py) and the worker (app/worker_rag.py);                  *)
(*   - RAGWorker.process_request, the query orchestrator.                  *)
(* Scores are integers in units of 1e-4 (0.45 is 4500); vector             *)
(* similarities are in units of 1e-2; temporal weights in units of 1e-1.   *)
(* Texts are sequences of character tokens, so that substring tests and    *)
(* string formatting are computed, not assumed.                            *)
(***************************************************************************)
EXTENDS Integers, Sequences, FiniteSets, TLC

VARIABLES
    articles,       \* rows of table articles
    chunks,         \* rows of table chunks
    nextArticleId,  \* AUTOINCREMENT counter of articles
    faiss_index,    \* RAGSystem.faiss_index / id_to_article_map
    faiss_cache,    \* files faiss_index.bin / faiss_map.pkl beside the database
    search_cache,   \* RAGSystem._search_cache, in insertion order
    now,            \* wall clock, in days
    lastOp,         \* the last RAGSystem call and what it returned
    served,         \* per (query, category, top_k): last non-empty result
                    \* returned since the last write or eviction of its key
    llm_requests,   \* queue llm_requests, oldest message first
    llm_responses,  \* queue llm_responses, oldest message first
    callback_queues,\* per caller: its exclusive reply queue
    callers,        \* per caller: position in generate / event_generator
    rpcOp,          \* the last queue operation of a caller or of the worker
    handled,        \* per request id: deliveries to the worker and the broker
                    \* operations process_request made for it, in order
    proc,           \* locals of RAGWorker.process_request and its position
    requests,       \* RateLimiter.requests: per user, the recorded timestamps
    clock,          \* time.time() at the last call of the rate limiter, in seconds
    rate_log,       \* the is_allowed calls so far: user, time, answer
    rateOp,         \* the last call of the rate limiter and what it returned
    store_calls     \* per process: its store_article call in progress

ragVars == <<articles, chunks, nextArticleId, faiss_index, faiss_cache, search_cache,
             now, lastOp, served>>
rpcVars == <<llm_requests, llm_responses, callback_queues, callers, rpcOp,
             handled>>
orchVars == <<proc>>
rateVars == <<requests, clock, rate_log, rateOp>>
txVars == <<store_calls>>

vars == <<ragVars, rpcVars, orchVars, rateVars, txVars>>

----------------------------------------------------------------------------
(* Bounds of the model *)

MaxArticles == 2        \* article rows ever inserted
MaxDay == 1             \* the clock runs over days 0..MaxDay
max_requests == 2       \* RateLimiter(max_requests, window_seconds) of the model
window_seconds == 3
MaxTime == 5            \* time.time() runs over seconds 0..MaxTime
MaxCalls == 4           \* is_allowed calls in a behaviour

----------------------------------------------------------------------------
(* Text helpers: Python's `needle in hay` on token sequences *)

Contains(hay, needle) ==
    \/ Len(needle) = 0
    \/ \E i \in 1..(Len(hay) - Len(needle) + 1) :
           SubSeq(hay, i, i + Len(needle) - 1) = needle

Min2(a, b) == IF a <= b THEN a ELSE b

----------------------------------------------------------------------------
(* Inputs: articles offered to store_article *)

ArticleInputs ==
    LET Links == {"L1", "L2"}
        Titles == {<<"a", "b">>, <<"a", "b", "c">>}
        \* pub_date strings: RFC-822 ("Mon, 05 Jan 2026 10:00:00 GMT"), ISO-8601, or
        \* anything else; day is the calendar day the string names.
        PubDates == {[day |-> 0, minute |-> 0, fmt |-> "rfc822"], [day |-> 1, minute |-> 0, fmt |-> "rfc822"],
                     [day |-> 0, minute |-> 0, fmt |-> "iso"]}
    IN
                 [link : Links, title : Titles, pub_date : PubDates]

----------------------------------------------------------------------------
(* Opaque services, fixed as functions of the text they are given *)

\* Embed(): the embedding model places a text in a topic; cosine similarity of
\* two embeddings (1e-2) depends on the two topics only.
TopicOf(text) == IF Len(text) > 0 /\ text[1] = "x" THEN "B" ELSE "A"

CosineSimilarity(queryText, chunkText) ==
    IF TopicOf(queryText) = TopicOf(chunkText) THEN 80 ELSE 22

\* classify_category(): the label the classifier gives a title
classify_category(title) == IF TopicOf(title) = "B" THEN "Tech" ELSE "General"

----------------------------------------------------------------------------
(* RAGSystem._calculate_temporal_weight *)

TemporalStep_Inclusive(age_minutes) ==
    IF age_minutes <= 12 * 60 THEN 15
    ELSE IF age_minutes <= 24 * 60 THEN 13
    ELSE IF age_minutes <= 72 * 60 THEN 11
    ELSE IF age_minutes <= 168 * 60 THEN 10
    ELSE IF age_minutes <= 720 * 60 THEN 8
    ELSE 5

\* the step function of the article's age, age in minutes, weight in 1e-1
TemporalStep(age_minutes) ==
    IF age_minutes < 12 * 60 THEN 15
    ELSE IF age_minutes < 24 * 60 THEN 13
    ELSE IF age_minutes < 72 * 60 THEN 11
    ELSE IF age_minutes < 168 * 60 THEN 10
    ELSE IF age_minutes < 720 * 60 THEN 8
    ELSE 5

\* strptime('%a, %d %b %Y %H:%M:%S %Z') or fromisoformat() parse the string;
\* anything else is the fallback 0.7
_calculate_temporal_weight_DayAge(pub_date, today) ==
    IF pub_date.fmt \notin {"rfc822", "iso"} THEN 7
    ELSE TemporalStep((today - pub_date.day) * 24 * 60)

\* pub_date names minute pub_date.minute of day pub_date.day; today is the
\* clock at the start of day today
_calculate_temporal_weight(pub_date, today) ==
    IF pub_date.fmt \notin {"rfc822", "iso"} THEN 7
    ELSE TemporalStep((today - pub_date.day) * 24 * 60 - pub_date.minute)

----------------------------------------------------------------------------
(* RAGSystem.store_article *)

\* mutant: the link check is skipped
LinkExists_Skipped(rows, link) == FALSE

\* SELECT id FROM articles WHERE link = ?
LinkExists(rows, link) == \E r \in rows : r.link = link

\* article['title'] in existing_title or existing_title in article['title']
TitleMatch(title, existing_title) ==
    Contains(existing_title, title) \/ Contains(title, existing_title)

SemanticDuplicate(rows, article, today) ==
    LET \* today_prefix = datetime.now().strftime("%a, %d %b %Y");
        \* pub_date LIKE '%<today_prefix>%'
        LikeTodayPrefix(pub_date, today0) ==
            pub_date.fmt = "rfc822" /\ pub_date.day = today0
    IN
    LET \* SELECT id, title FROM articles WHERE pub_date LIKE ?
        ExistingToday(rows0, today0) == {r \in rows0 : LikeTodayPrefix(r.pub_date, today0)}
    IN
    \E r \in ExistingToday(rows, today) : TitleMatch(article.title, r.title)

NewChunkRows_TitleOnly(rows, article_id, article) ==
    LET base == IF rows = {} THEN 0
                ELSE CHOOSE m \in {c.id : c \in rows} :
                         \A c \in rows : c.id <= m
    IN {[id |-> base + 1, article_id |-> article_id, content |-> article.title]}

NewChunkRows(rows, article_id, article) ==
    LET \* chunks = [title, summary] + split_into_chunks(content), each of length >= 5:
        \* the title chunk and the summary chunk (the summary falls back to the title)
        ChunkTexts(article0) == <<article0.title, article0.title>>
    IN
    LET base == IF rows = {} THEN 0
                ELSE CHOOSE m \in {c.id : c \in rows} :
                         \A c \in rows : c.id <= m
    IN {[id |-> base + i, article_id |-> article_id,
         content |-> ChunkTexts(article)[i]] : i \in 1..Len(ChunkTexts(article))}

----------------------------------------------------------------------------
(* RAGSystem._rebuild_faiss_index *)

\* the index holds one entry (chunk_id, article_id, text) per chunk row; when
\* the chunks table is empty the old index is left in place
_rebuild_faiss_index(index, chunkRows) ==
    IF chunkRows # {} THEN [present |-> TRUE, entries |-> chunkRows]
    ELSE index

NoIndex == [present |-> FALSE, entries |-> {}]

----------------------------------------------------------------------------
(* RAGSystem._init_faiss_index *)

\* _init_faiss_index(): [index, cache]. cache is the pair of files
\* faiss_index.bin / faiss_map.pkl: when both exist and load, they are the
\* index and the chunks table is not read; otherwise the index is built from
\* the chunk rows and written to the files, and stays None on an empty table.
\* read_fails: read_index or pickle.load raises; write_fails: write_index raises
_init_faiss_index(cache, chunkRows, read_fails, write_fails) ==
    IF cache.present /\ ~read_fails THEN [index |-> cache, cache |-> cache]
    ELSE IF chunkRows = {} THEN [index |-> NoIndex, cache |-> cache]
    ELSE LET built == [present |-> TRUE, entries |-> chunkRows]
         IN [index |-> built, cache |-> IF write_fails THEN cache ELSE built]

----------------------------------------------------------------------------
(* RAGSystem.search_articles and its two retrieval routes *)

None == "None"
MinSimilarity == 25            \* min_similarity = 0.25, in 1e-2

\* weighted_score = similarity * (0.7 + 0.3 * time_weight), in 1e-4
WeightedScore(similarity, time_weight) == similarity * (70 + 3 * time_weight)

\* faiss_index.search(): the k nearest entries, nearest first
RECURSIVE NearestFirst(_, _)
NearestFirst(entries, query) ==
    IF entries = {} THEN <<>>
    ELSE LET e == CHOOSE e \in entries : \A f \in entries :
                     \/ CosineSimilarity(query, e.content) > CosineSimilarity(query, f.content)
                     \/ /\ CosineSimilarity(query, e.content) = CosineSimilarity(query, f.content)
                        /\ e.id <= f.id
         IN <<e>> \o NearestFirst(entries \ {e}, query)

FirstK(seq, k) == SubSeq(seq, 1, Min2(k, Len(seq)))

RECURSIVE FaissCollect(_, _, _, _, _, _)
FaissCollect(hits, rows, query, category, today, seen) ==
    LET \* SELECT ... FROM articles WHERE id = ? [AND category = ?]
        FetchRow(rows0, article_id, category0) ==
            {r \in rows0 : r.id = article_id /\ (category0 = None \/ r.category = category0)}
    IN
    IF hits = <<>> THEN <<>>
    ELSE LET e == Head(hits)
             sim == CosineSimilarity(query, e.content)
             row == FetchRow(rows, e.article_id, category)
         IN IF sim < MinSimilarity \/ e.article_id \in seen \/ row = {}
            THEN FaissCollect(Tail(hits), rows, query, category, today, seen)
            ELSE LET r == CHOOSE r \in row : TRUE
                 IN <<[id |-> r.id,
                       similarity |-> WeightedScore(sim,
                           _calculate_temporal_weight(r.pub_date, today))]>>
                    \o FaissCollect(Tail(hits), rows, query, category, today,
                                    seen \cup {e.article_id})

_search_with_faiss(index, rows, query, category, today) ==
    LET \* k_candidates = 50 if category else 20
        KCandidates(category0) == IF category0 # None THEN 50 ELSE 20
    IN
    FaissCollect(FirstK(NearestFirst(index.entries, query),
                        Min2(KCandidates(category), Cardinality(index.entries))),
                 rows, query, category, today, {})

\* sorted(xs, key=similarity, reverse=True): descending and stable (an element
\* stays ahead of the equal-scored elements that followed it)
RECURSIVE InsertDesc(_, _)
InsertDesc(x, sorted) ==
    IF sorted = <<>> THEN <<x>>
    ELSE IF Head(sorted).similarity > x.similarity
         THEN <<Head(sorted)>> \o InsertDesc(x, Tail(sorted))
         ELSE <<x>> \o sorted

SortedBySimilarity_Unsorted(s) == s

\* sorted(..., key=similarity, reverse=True)
RECURSIVE SortedBySimilarity(_)
SortedBySimilarity(s) ==
    IF s = <<>> THEN <<>>
    ELSE InsertDesc(Head(s), SortedBySimilarity(Tail(s)))

\* the brute-force route: every chunk joined to its article, best chunk per
\* article, floor on the weighted score
_search_with_sqlite(rows, chunkRows, query, category, today) ==
    LET joined == {r \in rows :
                      /\ category = None \/ r.category = category
                      /\ \E c \in chunkRows : c.article_id = r.id}
        best(r) == CHOOSE m \in {CosineSimilarity(query, c.content) :
                                    c \in {c \in chunkRows : c.article_id = r.id}} :
                       \A c \in chunkRows : c.article_id = r.id =>
                           CosineSimilarity(query, c.content) <= m
        score(r) == WeightedScore(best(r),
                        _calculate_temporal_weight(r.pub_date, today))
        kept == {r \in joined : score(r) >= MinSimilarity * 100}
        RECURSIVE ById(_)
        ById(S) == IF S = {} THEN <<>>
                   ELSE LET r == CHOOSE r \in S : \A q \in S : r.id <= q.id
                        IN <<[id |-> r.id, similarity |-> score(r)]>>
                           \o ById(S \ {r})
    IN SortedBySimilarity(ById(kept))

----------------------------------------------------------------------------
(* The search cache *)

_cache_max_size == 100

\* str(n) for n >= 0
Digits == <<"0", "1", "2", "3", "4", "5", "6", "7", "8", "9">>
RECURSIVE IntToStr(_)
IntToStr(n) ==
    IF n < 10 THEN <<Digits[n + 1]>>
    ELSE IntToStr(n \div 10) \o <<Digits[(n % 10) + 1]>>

\* _get_cache_key(f"{query}_{category}", top_k) = md5(f"{query}_{category}_{top_k}");
\* the digest is taken to be collision-free, so the key is the formatted string
_get_cache_key(query, category, top_k) ==
    LET \* str(category): None formats as "None"
        CategoryStr(category0) ==
            IF category0 = None THEN <<"N", "o", "n", "e">>
            ELSE IF category0 = "Tech" THEN <<"T", "e", "c", "h">>
            ELSE <<"G", "e", "n", "e", "r", "a", "l">>
    IN
    query \o <<"_">> \o CategoryStr(category) \o <<"_">> \o IntToStr(top_k)

CacheHas(cache, key) == \E i \in 1..Len(cache) : cache[i].key = key

\* mutant: every result is cached, the empty one too
ShouldCache_Always(final_results) == TRUE

\* if final_results: (empty results are not cached)
ShouldCache(final_results) == final_results # <<>>

\* mutant: the insert never evicts
CacheInsert_NoEvict(cache, key, value) ==
    Append(cache, [key |-> key, value |-> value])

\* if len(cache) >= max: cache.pop(next(iter(cache)));  cache[key] = results
\* (a dict keeps insertion order; key is absent on this path)
CacheInsert(cache, key, value) ==
    Append(IF Len(cache) >= _cache_max_size THEN Tail(cache) ELSE cache,
           [key |-> key, value |-> value])

\* the scoring pipeline of a cache miss (BM25, entity boost and rerank are
\* optional imports; this is the configuration without them)
ComputeResults(index, rows, chunkRows, query, top_k, category, today) ==
    LET results == IF index.present
                   THEN _search_with_faiss(index, rows, query, category, today)
                   ELSE _search_with_sqlite(rows, chunkRows, query, category, today)
    IN FirstK(SortedBySimilarity(results), top_k)

\* mutant: the cache is not consulted
search_articles_NoLookup(cache, index, rows, chunkRows, query, top_k, category, today) ==
    LET final_results ==
            ComputeResults(index, rows, chunkRows, query, top_k, category, today)
    IN [ret |-> final_results, cache |-> cache, computed |-> TRUE]

\* search_articles: [ret, cache, computed]
search_articles(cache, index, rows, chunkRows, query, top_k, category, today) ==
    LET CacheGet(cache0, key) ==
            cache0[CHOOSE i \in 1..Len(cache0) : cache0[i].key = key].value
    IN
    LET key == _get_cache_key(query, category, top_k)
    IN IF CacheHas(cache, key)
       THEN [ret |-> CacheGet(cache, key), cache |-> cache, computed |-> FALSE]
       ELSE LET final_results ==
                    ComputeResults(index, rows, chunkRows, query, top_k, category, today)
            IN [ret |-> final_results,
                cache |-> IF ShouldCache(final_results)
                          THEN CacheInsert(cache, key, final_results)
                          ELSE cache,
                computed |-> TRUE]

----------------------------------------------------------------------------
(* RAGSystem.store_article and delete_article as state transformers *)

\* store_article(article): [ok, articles, chunks, nextId, index].
\* raises: get_embedding() raises after the INSERT and before the commit; the
\* connection is closed without a commit and the insert is rolled back.
store_article(rows, chunkRows, nextId, index, article, today, raises) ==
    LET unchanged == [ok |-> FALSE, articles |-> rows, chunks |-> chunkRows,
                      nextId |-> nextId, index |-> index]
    IN IF LinkExists(rows, article.link) THEN unchanged
       ELSE IF SemanticDuplicate(rows, article, today) THEN unchanged
       ELSE IF raises THEN unchanged
       ELSE LET row == [id |-> nextId, link |-> article.link,
                        title |-> article.title, pub_date |-> article.pub_date,
                        category |-> classify_category(article.title)]
                newChunks == chunkRows \cup NewChunkRows(chunkRows, nextId, article)
            IN [ok |-> TRUE, articles |-> rows \cup {row}, chunks |-> newChunks,
                nextId |-> nextId + 1,
                index |-> IF index.present
                          THEN _rebuild_faiss_index(index, newChunks)
                          ELSE index]

\* delete_article(article_id): DELETE FROM articles WHERE id = ?; the
\* connection does not enable foreign keys, so chunk rows stay
delete_article(rows, chunkRows, index, article_id) ==
    LET deleted == \E r \in rows : r.id = article_id
    IN [ok |-> deleted,
        articles |-> {r \in rows : r.id # article_id},
        chunks |-> chunkRows,
        index |-> IF deleted /\ index.present
                  THEN _rebuild_faiss_index(index, chunkRows)
                  ELSE index]

----------------------------------------------------------------------------
(* Search requests of the model *)

SearchInputs ==
    {[query |-> <<"a", "b">>, category |-> None, top_k |-> 1],
     [query |-> <<"x", "y">>, category |-> "Tech", top_k |-> 2]}
NoSearch == [query |-> <<>>, category |-> None, top_k |-> 0]

\* other queries that fill the cache: "q1", "q2", ...
FillerQuery(i) == <<"q">> \o IntToStr(i)

KeyOf(t) == _get_cache_key(t.query, t.category, t.top_k)

NoArg == [link |-> "", title |-> <<>>, pub_date |-> [day |-> 0, minute |-> 0, fmt |-> ""]]

OpOther(name) ==
    [op |-> name, article |-> NoArg, article_id |-> 0, search |-> NoSearch,
     ok |-> TRUE, result |-> <<>>, computed |-> FALSE]

----------------------------------------------------------------------------
(* The queue RPC: callers, queues llm_requests and llm_responses, the      *)
(* exclusive reply queues, and the worker's consume / publish / ack        *)

Callers == {"c1", "c2"}

\* "shared": LLMClient.generate (app/client.py, web_interface.py), which polls
\* queue llm_responses; "exclusive": chat_stream.event_generator
\* (api_server.py), which declares its own reply queue
CallerKinds == {"shared", "exclusive"}

\* uuid.uuid4(): every request gets an id no other request has
NewRequestId(c) == IF c = "c1" THEN "r1" ELSE "r2"

\* response texts the worker can publish; the second is the error text of
\* a missing model, the third the sentinel of stream mode, the last an empty
\* output of the generation service
ResponseTexts == {"answer", "model 'llama3' not found", "[STREAMING_READY]", ""}

NoMessage ==
    [request_id |-> "", response |-> "", final_prompt |-> None, status |-> "",
     correlation_id |-> None]

\* the callers set delivery_mode and reply_to only: no request carries a
\* correlation id
RequestMessage(id, reply_to) ==
    [request_id |-> id, reply_to |-> reply_to, correlation_id |-> None]

\* resp_id == request_id
IsOurs_Any(resp_id, own_id) == TRUE
IsOurs(resp_id, own_id) == resp_id = own_id

NoQueue == [declared |-> FALSE, messages |-> <<>>]

CallerIdle(kind) ==
    [kind |-> kind, pc |-> "idle", request_id |-> "", checked_messages |-> 0,
     response_data |-> NoMessage, events |-> <<>>, chunks |-> 0, timed_out |-> FALSE]

RpcOp(op, c, m) == [op |-> op, caller |-> c, msg |-> m]

PublishTo_DefaultQueue(reply_to, m, responses, queues) ==
    [responses |-> Append(responses, m), queues |-> queues]

\* basic_publish(exchange='', routing_key=reply_to): the default exchange
\* routes to the queue of that name, and drops the message when there is none
PublishTo(reply_to, m, responses, queues) ==
    IF reply_to = None
    THEN [responses |-> Append(responses, m), queues |-> queues]
    ELSE IF queues[reply_to].declared
    THEN [responses |-> responses,
          queues |-> [queues EXCEPT ![reply_to].messages = Append(@, m)]]
    ELSE [responses |-> responses, queues |-> queues]

\* LLMClient.generate up to the publish of the request
ClientSend(c) ==
    /\ callers[c].kind = "shared"
    /\ callers[c].pc = "idle"
    /\ llm_requests' = Append(llm_requests, RequestMessage(NewRequestId(c), None))
    /\ callers' = [callers EXCEPT ![c].pc = "waiting",
                                  ![c].request_id = NewRequestId(c)]
    /\ rpcOp' = RpcOp("send", c, NoMessage)
    /\ UNCHANGED <<llm_responses, callback_queues, handled, ragVars, orchVars, rateVars, txVars>>

\* one round of the polling loop that gets a message: basic_get, then
\* basic_ack and return for the caller's own response, basic_nack with
\* requeue=False for an old error text and for any other message
ClientPoll(c) ==
    LET IsOldError(response_text) == response_text = "model 'llama3' not found"
    IN
    /\ callers[c].kind = "shared"
    /\ callers[c].pc = "waiting"
    /\ llm_responses # <<>>
    /\ LET m == Head(llm_responses)
       IN /\ llm_responses' = Tail(llm_responses)
          /\ IF IsOurs(m.request_id, callers[c].request_id) /\ ~IsOldError(m.response)
             THEN /\ callers' = [callers EXCEPT ![c].pc = "done",
                                               ![c].checked_messages = @ + 1,
                                               ![c].response_data = m]
                  /\ rpcOp' = RpcOp("ack", c, m)
             ELSE /\ callers' = [callers EXCEPT ![c].checked_messages = @ + 1]
                  /\ rpcOp' = RpcOp("nack", c, m)
    /\ UNCHANGED <<llm_requests, callback_queues, handled, ragVars, orchVars, rateVars, txVars>>

\* the loop condition fails: generate returns None
ClientTimeout(c) ==
    /\ callers[c].kind = "shared"
    /\ callers[c].pc = "waiting"
    /\ callers' = [callers EXCEPT ![c].pc = "done"]
    /\ rpcOp' = RpcOp("timeout", c, NoMessage)
    /\ UNCHANGED <<llm_requests, llm_responses, callback_queues, handled, ragVars, orchVars, rateVars, txVars>>

\* chunk events of one stream that the model follows
MaxChunks == 2

TimeoutEvents_ThenDone == <<"error", "done">>

\* lines 278-280: the events of a timeout, after which the generator returns
TimeoutEvents == <<"error">>

\* lines 286-340: which of the three ways the answer is streamed
StreamBranch(enhanced_data) ==
    IF enhanced_data.response # "" /\ enhanced_data.response # "[STREAMING_READY]"
    THEN "pregenerated"
    ELSE IF enhanced_data.final_prompt \notin {None, ""} THEN "ollama"
    ELSE "fallback"

\* event_generator up to the first status event: declare the exclusive
\* queue, publish the request with reply_to set to it
StreamSend(c) ==
    /\ callers[c].kind = "exclusive"
    /\ callers[c].pc = "idle"
    /\ callback_queues' = [callback_queues EXCEPT
                              ![c] = [declared |-> TRUE, messages |-> <<>>]]
    /\ llm_requests' = Append(llm_requests, RequestMessage(NewRequestId(c), c))
    /\ callers' = [callers EXCEPT ![c].pc = "waiting",
                                  ![c].request_id = NewRequestId(c),
                                  ![c].events = Append(@, "status")]
    /\ rpcOp' = RpcOp("send", c, NoMessage)
    /\ UNCHANGED <<llm_responses, handled, ragVars, orchVars, rateVars, txVars>>

\* basic_get(auto_ack=True) returns a message: it becomes enhanced_data
\* whatever its request_id, the queue is deleted, the metadata event and the
\* second status event are emitted
StreamPoll(c) ==
    /\ callers[c].kind = "exclusive"
    /\ callers[c].pc = "waiting"
    /\ callback_queues[c].messages # <<>>
    /\ LET m == Head(callback_queues[c].messages)
       IN /\ callers' = [callers EXCEPT ![c].pc = "streaming",
                                        ![c].checked_messages = @ + 1,
                                        ![c].response_data = m,
                                        ![c].events = @ \o <<"metadata", "status">>]
          /\ rpcOp' = RpcOp("get", c, m)
    /\ callback_queues' = [callback_queues EXCEPT ![c] = NoQueue]
    /\ UNCHANGED <<llm_requests, llm_responses, handled, ragVars, orchVars, rateVars, txVars>>

\* request.timeout passes: the queue is deleted, an error event is emitted,
\* the generator returns
StreamTimeout(c) ==
    /\ callers[c].kind = "exclusive"
    /\ callers[c].pc = "waiting"
    /\ callers' = [callers EXCEPT ![c].pc = "done",
                                  ![c].timed_out = TRUE,
                                  ![c].events = @ \o TimeoutEvents]
    /\ callback_queues' = [callback_queues EXCEPT ![c] = NoQueue]
    /\ rpcOp' = RpcOp("timeout", c, NoMessage)
    /\ UNCHANGED <<llm_requests, llm_responses, handled, ragVars, orchVars, rateVars, txVars>>

\* one chunk event: a slice of the response text, a line of the Ollama
\* stream, or the whole response of the fallback branch
StreamChunk(c) ==
    /\ callers[c].kind = "exclusive"
    /\ callers[c].pc = "streaming"
    /\ callers[c].chunks < MaxChunks
    /\ StreamBranch(callers[c].response_data) = "fallback" => callers[c].chunks = 0
    /\ callers' = [callers EXCEPT ![c].chunks = @ + 1,
                                  ![c].events = Append(@, "chunk")]
    /\ rpcOp' = RpcOp("chunk", c, NoMessage)
    /\ UNCHANGED <<llm_requests, llm_responses, callback_queues, handled, ragVars, orchVars, rateVars, txVars>>

\* lines 336-338: the request to Ollama or its stream raises; an error event
\* is emitted and no further chunk
StreamOllamaError(c) ==
    /\ callers[c].kind = "exclusive"
    /\ callers[c].pc = "streaming"
    /\ StreamBranch(callers[c].response_data) = "ollama"
    /\ callers' = [callers EXCEPT ![c].pc = "finishing",
                                  ![c].events = Append(@, "error")]
    /\ rpcOp' = RpcOp("ollama_error", c, NoMessage)
    /\ UNCHANGED <<llm_requests, llm_responses, callback_queues, handled, ragVars, orchVars, rateVars, txVars>>

\* line 364: the done event, after the chunks of the branch
StreamDone(c) ==
    /\ callers[c].kind = "exclusive"
    /\ callers[c].pc \in {"streaming", "finishing"}
    /\ (callers[c].pc = "streaming"
        /\ StreamBranch(callers[c].response_data) # "ollama") => callers[c].chunks >= 1
    /\ callers' = [callers EXCEPT ![c].pc = "done",
                                  ![c].events = Append(@, "done")]
    /\ rpcOp' = RpcOp("done", c, NoMessage)
    /\ UNCHANGED <<llm_requests, llm_responses, callback_queues, handled, ragVars, orchVars, rateVars, txVars>>

\* lines 366-368: an exception of the broker connection, before the request
\* is published or while polling; one error event ends the stream. The
\* exclusive queue goes with the connection.
StreamRaise(c) ==
    /\ callers[c].kind = "exclusive"
    /\ callers[c].pc \in {"idle", "waiting"}
    /\ callers' = [callers EXCEPT ![c].pc = "done",
                                  ![c].events = Append(@, "error")]
    /\ callback_queues' = [callback_queues EXCEPT ![c] = NoQueue]
    /\ rpcOp' = RpcOp("raise", c, NoMessage)
    /\ UNCHANGED <<llm_requests, llm_responses, handled, ragVars, orchVars, rateVars, txVars>>

RequestIds == {NewRequestId(c) : c \in Callers}

\* deliveries of one request that the model follows
MaxDeliveries == 2

NotHandled == [deliveries |-> 0, request |-> RequestMessage("", None), ops |-> <<>>]

\* one broker operation of process_request: basic_publish to a queue,
\* basic_ack, or basic_nack
BrokerOp(op, to, m) == [op |-> op, to |-> to, msg |-> m]

\* reply_to = properties.reply_to if properties.reply_to else RESPONSE_QUEUE
ReplyDestination(request) ==
    LET RESPONSE_QUEUE == "llm_responses"
    IN
    IF request.reply_to # None THEN request.reply_to ELSE RESPONSE_QUEUE

NackRequeue_True == TRUE

\* requeue=False of the basic_nack in the except branch
NackRequeue == FALSE

\* process_request as the queues see it: the oldest request is delivered;
\* the response is published to reply_to, or to llm_responses when the
\* request names none, and then the request is acked; on an exception the
\* request is nacked without requeue and nothing is published
WorkerProcess(text, raises) ==
    LET \* basic_nack(requeue): the broker puts the message back at the head of its
        \* queue, or drops it (llm_requests is declared without a dead-letter exchange)
        Rejected(queue, request, requeue) ==
            IF requeue THEN <<request>> \o queue ELSE queue
    IN
    LET \* response_data of process_request, as far as the callers read it, with
        \* the correlation_id of the publish
        ResponseMessage(request, text0, final_prompt) ==
            [request_id |-> request.request_id, response |-> text0,
             final_prompt |-> final_prompt,
             status |-> "success", correlation_id |-> request.correlation_id]
        \* final_prompt starts as the prompt, which may be the empty string
        FinalPrompts(text0) ==
            IF text0 = "[STREAMING_READY]" THEN {"final_prompt", ""} ELSE {None}
    IN
    /\ llm_requests # <<>>
    /\ handled[Head(llm_requests).request_id].deliveries < MaxDeliveries
    /\ text = "[STREAMING_READY]" => Head(llm_requests).reply_to # None
    /\ \E final_prompt \in FinalPrompts(text) :
       LET request == Head(llm_requests)
           id == request.request_id
           reply_to == ReplyDestination(request)
           m == ResponseMessage(request, text, final_prompt)
           sent == PublishTo(request.reply_to, m, llm_responses, callback_queues)
       IN IF raises
          THEN /\ rpcOp' = RpcOp("worker_nack", "worker", NoMessage)
               /\ llm_requests' = Rejected(Tail(llm_requests), request, NackRequeue)
               /\ handled' = [handled EXCEPT
                                 ![id].deliveries = @ + 1,
                                 ![id].request = request,
                                 ![id].ops = Append(@, BrokerOp("nack", "", NoMessage))]
               /\ UNCHANGED <<llm_responses, callback_queues>>
          ELSE /\ llm_responses' = sent.responses
               /\ callback_queues' = sent.queues
               /\ rpcOp' = RpcOp("publish", "worker", m)
               /\ llm_requests' = Tail(llm_requests)
               /\ handled' = [handled EXCEPT
                                 ![id].deliveries = @ + 1,
                                 ![id].request = request,
                                 ![id].ops = @ \o <<BrokerOp("publish", reply_to, m),
                                                    BrokerOp("ack", "", NoMessage)>>]
    /\ UNCHANGED <<callers, ragVars, orchVars, rateVars, txVars>>

RpcAtRest ==
    /\ llm_requests = <<>>
    /\ llm_responses = <<>>
    /\ callback_queues = [c \in Callers |-> NoQueue]
    /\ callers = [c \in Callers |-> CallerIdle("shared")]
    /\ rpcOp = RpcOp("init", "", NoMessage)
    /\ handled = [id \in RequestIds |-> NotHandled]

NextRpc ==
    \/ \E c \in Callers : ClientSend(c)
    \/ \E c \in Callers : ClientPoll(c)
    \/ \E c \in Callers : ClientTimeout(c)
    \/ \E c \in Callers : StreamSend(c)
    \/ \E c \in Callers : StreamPoll(c)
    \/ \E c \in Callers : StreamTimeout(c)
    \/ \E c \in Callers : StreamChunk(c)
    \/ \E c \in Callers : StreamOllamaError(c)
    \/ \E c \in Callers : StreamDone(c)
    \/ \E c \in Callers : StreamRaise(c)
    \/ \E text \in ResponseTexts, raises \in BOOLEAN : WorkerProcess(text, raises)

----------------------------------------------------------------------------
(* RAGWorker.process_request: strings *)

is_chinese(text) ==
    LET \* the characters of the model's texts that lie in U+4E00..U+9FFF, by name:
        \* ma_t is U+99AC and ma_s is U+9A6C (its simplified form); la, song, sai, du
        \* spell the words of the prompts and titles; tian qi is the weather word of
        \* line 356, zui xin the word "latest" of line 522, de a glue word of
        \* _extract_zh_terms, gang and guo_t characters of the clarify options
        CJK == {"ma_t", "ma_s", "la", "song", "sai", "du", "tian", "qi", "zui", "xin",
                "de", "gang", "guo_t", "guo_s"}
    IN
                    \E i \in 1..Len(text) : text[i] \in CJK

LowerLetters == <<"a", "b", "c", "d", "e", "f", "g", "h", "i", "j", "k", "l", "m",
                  "n", "o", "p", "q", "r", "s", "t", "u", "v", "w", "x", "y", "z">>
UpperLetters == <<"A", "B", "C", "D", "E", "F", "G", "H", "I", "J", "K", "L", "M",
                  "N", "O", "P", "Q", "R", "S", "T", "U", "V", "W", "X", "Y", "Z">>

\* str.lower and str.upper, one character at a time
LowerChar(ch) ==
    IF \E i \in 1..26 : UpperLetters[i] = ch
    THEN LowerLetters[CHOOSE i \in 1..26 : UpperLetters[i] = ch] ELSE ch
UpperChar(ch) ==
    IF \E i \in 1..26 : LowerLetters[i] = ch
    THEN UpperLetters[CHOOSE i \in 1..26 : LowerLetters[i] = ch] ELSE ch
Lower(text) == [i \in 1..Len(text) |-> LowerChar(text[i])]

RECURSIVE LStrip(_)
LStrip(text) ==
    IF text # <<>> /\ Head(text) = " " THEN LStrip(Tail(text)) ELSE text

RECURSIVE RStrip(_)
RStrip(text) ==
    IF text # <<>> /\ text[Len(text)] = " "
    THEN RStrip(SubSeq(text, 1, Len(text) - 1)) ELSE text

Strip(text) == RStrip(LStrip(text))

\* str.split(sep) for a set of one-character separators, empty parts dropped
RECURSIVE SplitOn(_, _, _)
SplitOn(text, seps, current) ==
    IF text = <<>>
    THEN IF current = <<>> THEN <<>> ELSE <<current>>
    ELSE IF Head(text) \in seps
    THEN (IF current = <<>> THEN <<>> ELSE <<current>>)
         \o SplitOn(Tail(text), seps, <<>>)
    ELSE SplitOn(Tail(text), seps, Append(current, Head(text)))

Prefix(text, n) == SubSeq(text, 1, n)

\* the elements of a sequence, first occurrences only, in order
RECURSIVE Unique(_, _)
Unique(seq, seen) ==
    IF seq = <<>> THEN <<>>
    ELSE IF Head(seq) \in seen THEN Unique(Tail(seq), seen)
    ELSE <<Head(seq)>> \o Unique(Tail(seq), seen \cup {Head(seq)})

RECURSIVE Flatten(_)
Flatten(seqs) == IF seqs = <<>> THEN <<>> ELSE Head(seqs) \o Flatten(Tail(seqs))

is_greeting_or_casual(query) ==
    LET \* the entries of exact_greetings and of the word list of
        \* is_greeting_or_casual that the alphabet of the model can spell
        ExactGreetings == {<<"h", "i">>}
        GreetingWords == {<<"h", "i">>}
    IN
    LET prompt_lower == Strip(Lower(query))
    IN \/ prompt_lower \in ExactGreetings
       \/ /\ Len(Strip(query)) <= 15
          /\ \E word \in GreetingWords : Contains(prompt_lower, word)

Translate(text) ==
    LET \* str.translate of line 485
        TranslateChar(ch) == IF ch = "guo_t" THEN "guo_s" ELSE ch
    IN
                   [i \in 1..Len(text) |-> TranslateChar(text[i])]

----------------------------------------------------------------------------
(* RAGWorker.process_request: retrieved articles and the lexical filters *)

FAST_ACCEPT == 62
RELEVANCE_THRESHOLD == 45
REFLECT_MIN == 60
QuickAccept == 60
NoScore == -1

MaxHits == 2

\* what search_articles(query, top_k, category) can return: at most top_k
\* different articles, of the category if one is given, best score first
SearchHits(top_k, category) ==
    LET \* the articles the store can return: the first names the marathon race, the
        \* second has the simplified spelling in its content only and no title (a
        \* feed entry without one is stored with title ''), the third shares two
        \* characters with the word and no more
        Corpus ==
            {[id |-> 1, title |-> <<"ma_t", "la", "song", "sai">>, summary |-> <<>>,
              content |-> <<"a", "b">>, source |-> "S1", category |-> <<"G", "e", "n", "e", "r", "a", "l">>],
             [id |-> 2, title |-> <<>>, summary |-> <<>>,
              content |-> <<"ma_s", "la", "song">>, source |-> "S2", category |-> <<"T", "e", "c", "h">>],
             [id |-> 3, title |-> <<"ma_t", "la", "du">>, summary |-> <<"c">>,
              content |-> <<"d">>, source |-> "S1", category |-> <<"G", "e", "n", "e", "r", "a", "l">>]}
    IN
    LET Scores == {40, 61, 70}
        Hit(a, similarity) ==
            [id |-> a.id, title |-> a.title, summary |-> a.summary, content |-> a.content,
             source |-> a.source, category |-> a.category, similarity |-> similarity]
    IN
    LET pool == {Hit(a, s) : a \in {b \in Corpus : category = <<>> \/ b.category = category},
                             s \in Scores}
    IN UNION {{h \in [1..n -> pool] :
                  /\ \A i, j \in 1..n : i < j => /\ h[i].id # h[j].id
                                                 /\ h[i].similarity >= h[j].similarity}
              : n \in 0..Min2(top_k, MaxHits)}

\* f"{title} {summary} {content}"
Hay(a) == a.title \o <<" ">> \o a.summary \o <<" ">> \o a.content

\* _lex and _quick_lex
LexMatch(a, q) ==
    LET \* str.replace for a one-character pattern
        Replace(text, old, new) ==
            [i \in 1..Len(text) |-> IF text[i] = old THEN new ELSE text[i]]
    IN
    LET LexVariants(q0) == {q0, Replace(q0, "ma_t", "ma_s"), Replace(q0, "ma_s", "ma_t")}
    IN
                  \E v \in LexVariants(q) : v # <<>> /\ Contains(Hay(a), v)

\* _lex_en
LexMatchEn(a, q) == Contains(Lower(Hay(a)), Lower(q))

_filter_articles(arts, query_for_lex, prompt) ==
    LET _extract_zh_terms(text) ==
            LET Suffix(text0, n) == SubSeq(text0, Len(text0) - n + 1, Len(text0))
                StopWords == {<<"zui", "xin">>}
            IN
            LET \* the glue words and stop words of _extract_zh_terms that the alphabet of
                \* the model can spell
                GlueWords == {"de", "?", ","}
                TermCandidates(p) ==
                    (IF 2 <= Len(p) /\ Len(p) <= 8 THEN <<p>> ELSE <<>>)
                    \o (IF Len(p) >= 4 THEN <<Prefix(p, 4), Suffix(p, 4)>> ELSE <<>>)
                    \o (IF Len(p) >= 3 THEN <<Prefix(p, 3), Suffix(p, 3)>> ELSE <<>>)
                    \o (IF Len(p) >= 2 THEN <<Prefix(p, 2), Suffix(p, 2)>> ELSE <<>>)
            IN
            LET split == SplitOn(text, GlueWords, <<>>)
                stripped == [i \in 1..Len(split) |-> Strip(split[i])]
                notEmpty(p) == p # <<>>
                parts == SelectSeq(stripped, notEmpty)
                candidatesOf == [i \in 1..Len(parts) |->
                                    IF parts[i] \in StopWords THEN <<>>
                                    ELSE TermCandidates(parts[i])]
                cleaned == [i \in 1..Len(Flatten(candidatesOf)) |->
                                    Strip(Flatten(candidatesOf)[i])]
                kept(t) == t # <<>> /\ t \notin StopWords
                out == Unique(SelectSeq(cleaned, kept), {})
            IN FirstK(out, 8)
    IN
    LET TopicVariants(base_terms) ==
            UNION {{base_terms[i], Translate(base_terms[i])}
                   \cup (IF Len(base_terms[i]) >= 3
                         THEN {Prefix(base_terms[i], 2), Prefix(Translate(base_terms[i]), 2)}
                         ELSE {})
                   : i \in 1..Len(base_terms)}
    IN
    LET q == Strip(query_for_lex)
        is_chinese_query == is_chinese(prompt)
        base_terms == _extract_zh_terms(prompt)
        lex(a) == LexMatch(a, q)
        lex_en(a) == LexMatchEn(a, q)
        topic(a) == \E v \in TopicVariants(base_terms) : v # <<>> /\ Contains(Hay(a), v)
    IN IF arts = <<>> THEN <<>>
       ELSE IF is_chinese_query /\ Len(q) <= 4 THEN SelectSeq(arts, lex)
       ELSE IF ~is_chinese_query /\ Len(q) <= 10 THEN SelectSeq(arts, lex_en)
       ELSE IF is_chinese_query /\ Len(q) > 4 /\ base_terms # <<>> THEN SelectSeq(arts, topic)
       ELSE arts

----------------------------------------------------------------------------
(* RAGWorker.process_request: texts the worker writes or receives *)

\* a text by its template, the prompt and articles it quotes, its list
\* items and the service outputs it embeds
Text(kind, prompt, arts, items, body) ==
    [kind |-> kind, prompt |-> prompt, arts |-> arts, items |-> items, body |-> body]

EmptyText == Text("", <<>>, <<>>, <<>>, <<>>)
NoneText == Text("None", <<>>, <<>>, <<>>, <<>>)
STREAMING_READY == Text("[STREAMING_READY]", <<>>, <<>>, <<>>, <<>>)

\* final_prompt of the relevance gate
NoInfoFinalPrompt(prompt, is_chinese_query) ==
    Text(IF is_chinese_query THEN "no_info_report_zh" ELSE "no_info_instruction_en",
         prompt, <<>>, <<>>, <<>>)

\* one labelled line of a planner or reflection output
Line(label, value) == [label |-> label, value |-> value]
RawLine(line) == line.label \o <<":", " ">> \o line.value

KEYWORDS == <<"K", "E", "Y", "W", "O", "R", "D", "S">>
CATEGORY == <<"C", "A", "T", "E", "G", "O", "R", "Y">>
HYDE == <<"H", "Y", "D", "E">>
INTENT == <<"I", "N", "T", "E", "N", "T">>
CONFLICTS == <<"C", "O", "N", "F", "L", "I", "C", "T", "S">>

\* re.search(label + r":\s*(.*?)(?:\n|$)", text, re.IGNORECASE): the first
\* line with the label; \s* also runs over the line end, so that after an
\* empty value the group is the next non-empty line
RECURSIVE NextText(_)
NextText(lines) ==
    IF lines = <<>> THEN <<>>
    ELSE IF Strip(RawLine(Head(lines))) # <<>> THEN LStrip(RawLine(Head(lines)))
    ELSE NextText(Tail(lines))

RECURSIVE Capture(_, _)
Capture(lines, label) ==
    IF lines = <<>> THEN [found |-> FALSE, group |-> <<>>]
    ELSE IF Head(lines).label = label
    THEN [found |-> TRUE,
          group |-> IF LStrip(Head(lines).value) # <<>> THEN LStrip(Head(lines).value)
                    ELSE NextText(Tail(lines))]
    ELSE Capture(Tail(lines), label)

\* str.split(',')[0]
RECURSIVE FirstField(_)
FirstField(text) ==
    IF text = <<>> \/ Head(text) = "," THEN <<>>
    ELSE <<Head(text)>> \o FirstField(Tail(text))

ALL == <<"A", "L", "L">>
BriefIntent == <<"b", "r", "i", "e", "f">>

\* planner outputs: no labelled line; all four lines; a two-character keyword
\* with a category list and an unknown intent; an eleven-character Latin
\* keyword line; an empty KEYWORDS value on the last line
PlannerOutputs ==
    { <<>>,
      << Line(KEYWORDS, <<"ma_t", "la", "song", " ", "sai", "du">>),
         Line(CATEGORY, <<"g", "e", "n", "e", "r", "a", "l">>),
         Line(HYDE, <<"h", "y">>),
         Line(INTENT, <<"U", "p", "d", "a", "t", "e">>) >>,
      << Line(KEYWORDS, <<"ma_t", "la">>),
         Line(CATEGORY, <<"A", "l", "l", ",", "t", "e", "c", "h">>),
         Line(INTENT, <<"n", "e", "w", "s">>) >>,
      << Line(KEYWORDS, <<"a", "b", " ", "n", "e", "w", "s", " ", "n", "o", "w">>),
         Line(CATEGORY, <<"T", "e", "c", "h">>) >>,
      << Line(CATEGORY, <<"a", "l", "l">>),
         Line(KEYWORDS, <<>>) >> }

\* LLMWorker.call_ollama on a failure of the service: the text
\* "Error calling Ollama: ..." (or "Ollama Error: ..."), returned, not raised
ErrorText == <<"E", "r", "r", "o", "r", ":", " ", "x">>

\* reflection outputs: no CONFLICTS line, none, a conflict
ReflectOutputs ==
    { <<>>, << Line(CONFLICTS, <<"n", "o", "n", "e">>) >>,
      << Line(CONFLICTS, <<"d", "a", "t", "e", "s">>) >> }

NoConflict == {<<"n", "o", "n", "e">>, <<>>}

\* outputs of the constrained analysis call after the header clean-up: an
\* empty text, an analysis, the error text of a failed call
AnalysisOutputs == {<<>>, <<"analysis">>, ErrorText}

\* query-variation outputs, as lines: none, one numbered paraphrase, the
\* error text of a failed call, a short line and two paraphrases
VariationOutputs ==
    { <<>>,
      << <<"1", ".", " ", "v", "a", "r", "i", "a", "n", "t">> >>,
      << ErrorText >>,
      << <<"o", "k">>, <<"p", "a", "r", "a", "-", "1">>, <<"p", "a", "r", "a", "-", "2">> >> }

RECURSIVE DropWhile(_, _)
DropWhile(text, chars) ==
    IF text # <<>> /\ Head(text) \in chars THEN DropWhile(Tail(text), chars) ELSE text

\* re.sub(r'^\d+[\.\) ]+', '', v)
StripNumbering(v) ==
    LET Digit == {"0", "1", "2", "3", "4", "5", "6", "7", "8", "9"}
    IN
    LET afterDigits == DropWhile(v, Digit)
        afterMarks == DropWhile(afterDigits, {".", ")", " "})
    IN IF Len(afterDigits) < Len(v) /\ Len(afterMarks) < Len(afterDigits)
       THEN afterMarks ELSE v

\* generate_query_variations
generate_query_variations(original_query, variations_text) ==
    LET stripped == [i \in 1..Len(variations_text) |-> Strip(variations_text[i])]
        long(line) == line # <<>> /\ Len(line) > 5
        kept == SelectSeq(stripped, long)
        variations == [i \in 1..Len(kept) |-> StripNumbering(kept[i])]
    IN <<original_query>> \o FirstK(variations, 2)

\* follow-up outputs, as lines, and their parse
SuggestOutputs == { <<>>, << <<"1", ")", " ", "w", "h", "y", "?">>, <<"n", "o">> >>,
                    << ErrorText >> }

----------------------------------------------------------------------------
(* RAGWorker.process_request: its locals and steps. A step runs from one   *)
(* call of the store, the classifier or the generation service to the next *)

\* the gateway sends request.prompt.strip(): a prompt of spaces arrives empty
Prompts ==
    { <<"ma_t", "la", "song">>, <<"ma_t", "la", "song", "sai">>, <<"A", "b">>,
      <<"h", "i">>, <<"tian", "qi">>, <<>> }

ProcIdle ==
    LET NoResponse ==
            [status |-> "", response |-> EmptyText, suggestions |-> <<>>,
             final_prompt |-> NoneText, rag_used |-> FALSE, articles_found |-> 0,
             tools_used |-> <<>>]
    IN
    [pc |-> "idle", prompt |-> <<>>, stream_mode |-> FALSE, use_rag |-> TRUE,
     search_query |-> <<>>, relevant_articles |-> <<>>, tools_used |-> <<>>,
     generated_text |-> EmptyText, final_prompt |-> EmptyText,
     max_similarity_score |-> NoScore, context |-> <<>>,
     detected_conflicts |-> <<>>, detected_intent |-> BriefIntent,
     needs_clarification |-> FALSE, is_ambiguous |-> FALSE,
     selected_category |-> ALL, hyde_summary |-> <<>>, planner_used |-> FALSE,
     queries |-> <<>>, seen |-> <<>>, search_calls |-> 0,
     response |-> NoResponse]

\* lines 295-369: the request's fields, the locals, the ambiguity flag, the
\* greeting check and the out-of-scope router
Start(prompt) ==
    LET Words(text) == SplitOn(text, {" "}, <<>>)
        PromptText(prompt0) ==
            IF prompt0 = <<>> THEN EmptyText ELSE Text("prompt", prompt0, <<>>, <<>>, <<>>)
        GreetingText(is_chinese_query) ==
            Text(IF is_chinese_query THEN "greeting_zh" ELSE "greeting_en", <<>>, <<>>, <<>>, <<>>)
        WeatherText == Text("weather_out_of_scope", <<>>, <<>>, <<>>, <<>>)
        WeatherWords == {<<"tian", "qi">>}
    IN
    /\ proc.pc = "idle"
    /\ LET is_chinese_query == is_chinese(prompt)
           greeting == is_greeting_or_casual(prompt)
           words == Words(Strip(prompt))
           is_ambiguous ==
               IF is_chinese_query THEN Len(Strip(prompt)) <= 3 /\ ~greeting
               ELSE Len(words) = 1 /\ Len(words[1]) <= 8 /\ ~greeting
           weather == /\ ~greeting
                      /\ is_chinese_query
                      /\ \E k \in WeatherWords : Contains(prompt, k)
           use_rag == ~greeting /\ ~weather
       IN proc' = [ProcIdle EXCEPT
                      !.pc = IF is_ambiguous /\ use_rag THEN "quick" ELSE "classify",
                      !.prompt = prompt,
                      !.use_rag = use_rag,
                      !.search_query = prompt,
                      !.final_prompt = PromptText(prompt),
                      !.is_ambiguous = is_ambiguous,
                      !.tools_used = IF greeting THEN <<"greeting_filter">>
                                     ELSE IF weather THEN <<"router_weather_out_of_scope">>
                                     ELSE <<>>,
                      !.generated_text = IF greeting THEN GreetingText(is_chinese_query)
                                         ELSE IF weather THEN WeatherText
                                         ELSE EmptyText]
    /\ UNCHANGED <<ragVars, rpcVars, rateVars, txVars>>

\* lines 372-424: the quick search of an ambiguous query and the clarifying
\* question
QuickSearch(hits) ==
    LET ClarifyText(prompt, is_chinese_query) ==
            LET HasAny(prompt0, chars) == \E i \in 1..Len(prompt0) : prompt0[i] \in chars
            IN
            LET \* the three options of the Chinese clarifying question
                ClarifyOptions(prompt0) ==
                    IF HasAny(prompt0, {"gang"})
                    THEN << <<"gang", "latest">>, <<"gang", "politics">>, <<"gang", "economy">> >>
                    ELSE IF HasAny(prompt0, {"guo_t"})
                    THEN << <<"guo_t", "politics">>, <<"guo_t", "economy">>, <<"guo_t", "society">> >>
                    ELSE << prompt0 \o <<"latest">>, prompt0 \o <<"related">>, prompt0 \o <<"analysis">> >>
            IN
            IF is_chinese_query
            THEN Text("clarify_zh", prompt, <<>>, ClarifyOptions(prompt), <<>>)
            ELSE Text("clarify_en", prompt, <<>>,
                      << <<"Latest news about">> \o prompt,
                         <<"Analysis/explanation of">> \o prompt,
                         <<"Compare different sources on">> \o prompt,
                         <<"Other">> >>, <<>>)
    IN
    /\ proc.pc = "quick"
    /\ LET prompt == proc.prompt
           is_chinese_query == is_chinese(prompt)
           quick_lex(a) == LexMatch(a, prompt)
           quick_test == IF hits # <<>> /\ is_chinese_query /\ Len(Strip(prompt)) <= 4
                         THEN SelectSeq(hits, quick_lex) ELSE hits
           strong == quick_test # <<>> /\ quick_test[1].similarity >= QuickAccept
       IN proc' = IF strong
                  THEN [proc EXCEPT !.pc = "classify",
                                    !.is_ambiguous = FALSE,
                                    !.search_calls = @ + 1]
                  ELSE [proc EXCEPT !.pc = "classify",
                                    !.needs_clarification = TRUE,
                                    !.use_rag = FALSE,
                                    !.tools_used = Append(@, "clarify_ambiguous"),
                                    !.generated_text = ClarifyText(prompt, is_chinese_query),
                                    !.search_calls = @ + 1]
    /\ UNCHANGED <<ragVars, rpcVars, rateVars, txVars>>

RunsPipeline_Always(use_rag, needs_clarification) == ~needs_clarification

\* line 436: the guard of the retrieval pipeline
RunsPipeline(use_rag, needs_clarification) == use_rag /\ ~needs_clarification

\* lines 427-431: the fast classifier, when it is switched on; fast_decision
\* is what classify_query_fast returns
Classify(use_fast_classifier, fast_decision) ==
    /\ proc.pc = "classify"
    /\ LET called == ~proc.needs_clarification /\ use_fast_classifier
           use_rag == IF called /\ fast_decision = "NONE" THEN FALSE ELSE proc.use_rag
       IN /\ ~called => fast_decision = None
          /\ proc' = [proc EXCEPT
                         !.use_rag = use_rag,
                         !.pc = IF RunsPipeline(use_rag, proc.needs_clarification)
                                THEN "fast" ELSE "generate"]
    /\ UNCHANGED <<ragVars, rpcVars, rateVars, txVars>>

RECURSIVE MaxSimilarity(_, _)
MaxSimilarity(current, arts) ==
    IF arts = <<>> THEN current
    ELSE MaxSimilarity(IF current = NoScore \/ Head(arts).similarity > current
                       THEN Head(arts).similarity ELSE current,
                       Tail(arts))

\* _build_context: the best score, one context block per article, the
\* articles appended to relevant_articles
_build_context(p, arts) ==
    [p EXCEPT !.max_similarity_score = MaxSimilarity(@, arts),
              !.context = @ \o [i \in 1..Len(arts) |-> arts[i].id],
              !.relevant_articles = @ \o arts]

fast_path_accept_AnyArticle(p) == Len(p.relevant_articles) > 0

\* line 520: the decision to accept the fast path
fast_path_accept(p) ==
    /\ p.max_similarity_score # NoScore
    /\ p.max_similarity_score >= FAST_ACCEPT
    /\ Len(p.relevant_articles) > 0

\* lines 504-531: the direct search, the filter on the prompt, the decision
\* to accept the fast path
FastPath(hits) ==
    LET \* the intent heuristic of the fast path, for the words the alphabet spells
        FastIntent(prompt) ==
            LET UpdateIntent == <<"u", "p", "d", "a", "t", "e">>
            IN
            IF Contains(Lower(prompt), <<"zui", "xin">>) THEN UpdateIntent ELSE BriefIntent
    IN
    /\ proc.pc = "fast"
    /\ LET prompt == proc.prompt
           arts == _filter_articles(hits, prompt, prompt)
           searched == [proc EXCEPT !.tools_used = Append(@, "RAG_fast"),
                                    !.search_calls = @ + 1]
           built == IF arts # <<>> THEN _build_context(searched, arts) ELSE searched
           accept == fast_path_accept(built)
       IN proc' = IF accept
                  THEN [built EXCEPT !.pc = "report",
                                     !.tools_used = Append(@, "fast_path_accept"),
                                     !.detected_intent = FastIntent(prompt)]
                  ELSE [built EXCEPT !.pc = "plan"]
    /\ UNCHANGED <<ragVars, rpcVars, rateVars, txVars>>

\* lines 533-566: the planner call and the parse of its output; raises is an
\* exception inside the try block, which leaves the defaults
Plan(plan_text, raises) ==
    LET \* str.capitalize
        Capitalize(text) ==
            [i \in 1..Len(text) |-> IF i = 1 THEN UpperChar(text[i]) ELSE LowerChar(text[i])]
    IN
    LET Intents == {<<"b", "r", "i", "e", "f">>, <<"u", "p", "d", "a", "t", "e">>,
                    <<"c", "o", "m", "p", "a", "r", "e">>, <<"e", "x", "p", "l", "a", "i", "n">>}
    IN
    /\ proc.pc = "plan"
    /\ raises => plan_text = <<>>
    /\ LET kw_match == Capture(plan_text, KEYWORDS)
           cat_match == Capture(plan_text, CATEGORY)
           hyde_match == Capture(plan_text, HYDE)
           intent_match == Capture(plan_text, INTENT)
           intent_str == Lower(Strip(intent_match.group))
       IN proc' = IF raises
                  THEN [proc EXCEPT !.pc = "retry", !.planner_used = TRUE]
                  ELSE [proc EXCEPT
                           !.pc = "retry",
                           !.planner_used = TRUE,
                           !.tools_used = Append(@, "planner"),
                           !.search_query = IF kw_match.found
                                            THEN Strip(kw_match.group) ELSE @,
                           !.selected_category =
                                IF cat_match.found
                                THEN Capitalize(FirstField(Strip(cat_match.group)))
                                ELSE @,
                           !.hyde_summary = IF hyde_match.found
                                            THEN Strip(hyde_match.group) ELSE @,
                           !.detected_intent =
                                IF intent_match.found /\ intent_str \in Intents
                                THEN intent_str ELSE BriefIntent]
    /\ UNCHANGED <<ragVars, rpcVars, rateVars, txVars>>

\* category filter of the retry: None for ALL; an empty string filters
\* nothing either (if category:), so the empty text stands for both
cat_filter(p) ==
    LET Upper(text) == [i \in 1..Len(text) |-> UpperChar(text[i])]
    IN
                 IF Upper(p.selected_category) = ALL THEN <<>> ELSE p.selected_category

retry_query(p) ==
    IF p.hyde_summary # <<>> THEN p.search_query \o <<" ">> \o p.hyde_summary
    ELSE p.search_query

skip_multi(p) == Len(Strip(p.search_query)) <= 4

WithHyde(p) ==
    IF p.hyde_summary # <<>> THEN [p EXCEPT !.tools_used = Append(@, "hyde")] ELSE p

\* lines 594-601: the filter on the planner's search query, and the retry
\* context in place of the fast-path context when the retry kept an article
FinishRetry(p, found) ==
    LET arts2 == _filter_articles(found, p.search_query, p.prompt)
    IN IF arts2 # <<>>
       THEN [_build_context([p EXCEPT !.context = <<>>,
                                      !.relevant_articles = <<>>,
                                      !.max_similarity_score = NoScore], arts2)
                EXCEPT !.pc = "report"]
       ELSE [p EXCEPT !.pc = "report"]

\* lines 569-603 without multi-query: one search of the retry query
RetrySingle(use_multi_query, hits) ==
    /\ proc.pc = "retry"
    /\ ~(use_multi_query /\ ~skip_multi(proc))
    /\ proc' = FinishRetry([WithHyde(proc) EXCEPT !.search_calls = @ + 1], hits)
    /\ UNCHANGED <<ragVars, rpcVars, rateVars, txVars>>

\* lines 569-583: the query variations of multi-query
RetryVariations(use_multi_query, variations_text, raises) ==
    /\ proc.pc = "retry"
    /\ use_multi_query /\ ~skip_multi(proc)
    /\ raises => variations_text = <<>>
    /\ LET variations == IF raises THEN <<proc.search_query>>
                         ELSE generate_query_variations(proc.search_query, variations_text)
           queries == IF retry_query(proc) # <<>> /\ retry_query(proc) # proc.search_query
                      THEN <<retry_query(proc)>> \o variations ELSE variations
       IN proc' = [WithHyde(proc) EXCEPT !.pc = "multi",
                                         !.queries = FirstK(queries, 3),
                                         !.seen = <<>>]
    /\ UNCHANGED <<ragVars, rpcVars, rateVars, txVars>>

\* seen[a['id']] = a for a new id or a higher similarity, in a dict
RECURSIVE MergeSeen(_, _)
MergeSeen(seen, all_articles) ==
    IF all_articles = <<>> THEN seen
    ELSE LET a == Head(all_articles)
             known == \E i \in 1..Len(seen) : seen[i].id = a.id
             updated == [i \in 1..Len(seen) |->
                            IF seen[i].id = a.id /\ a.similarity > seen[i].similarity
                            THEN a ELSE seen[i]]
         IN MergeSeen(IF known THEN updated ELSE Append(seen, a), Tail(all_articles))

\* lines 584-603: one search of the loop over queries[:3], its results merged
\* by article id as they arrive; after the last one, the sort, the cut to
\* three, the filter and the replacement of the context
MultiSearch(hits) ==
    /\ proc.pc = "multi"
    /\ proc.queries # <<>>
    /\ LET merged == [proc EXCEPT !.seen = MergeSeen(@, hits),
                                  !.queries = Tail(@),
                                  !.search_calls = @ + 1]
       IN proc' = IF merged.queries = <<>>
                  THEN FinishRetry([merged EXCEPT !.seen = <<>>],
                                   FirstK(SortedBySimilarity(merged.seen), 3))
                  ELSE merged
    /\ UNCHANGED <<ragVars, rpcVars, rateVars, txVars>>

ReflectionRuns(p) ==
    LET Sources(arts) == {arts[i].source : i \in {j \in 1..Len(arts) : arts[j].source # ""}}
    IN
    /\ p.relevant_articles # <<>>
    /\ (IF p.max_similarity_score = NoScore THEN 0 ELSE p.max_similarity_score) >= REFLECT_MIN
    /\ Cardinality(Sources(p.relevant_articles)) >= 2

\* the relevance gate of line 631
NoInfo(p) == p.relevant_articles = <<>> \/ p.max_similarity_score < RELEVANCE_THRESHOLD

\* _render_structured_report: the flash line and the fact and source lists
\* quote articles[:3], the analysis is the service's text or the fallback
_render_structured_report(prompt, arts, is_chinese_query, conflicts, analysis_text) ==
    LET FallbackAnalysis == <<"fallback analysis">>
    IN
    LET analysis == IF analysis_text = <<>> THEN FallbackAnalysis ELSE analysis_text
        shown == IF is_chinese_query
                 THEN IF Strip(conflicts) # <<>> /\ Lower(Strip(conflicts)) \notin NoConflict
                      THEN Strip(conflicts) ELSE <<"none.">>
                 ELSE IF conflicts # <<>> THEN Strip(conflicts) ELSE <<"None.">>
        \* top = articles[0]; the flash line quotes its title with the citation
        \* [1], or names the prompt when that title is empty
        flash == IF arts # <<>> /\ arts[1].title # <<>>
                 THEN <<"flash">> \o arts[1].title \o <<"[1]">>
                 ELSE <<"insufficient">> \o prompt
    IN Text(IF is_chinese_query THEN "report_zh" ELSE "report_en", prompt,
            [i \in 1..Len(FirstK(arts, 3)) |-> arts[i].id],
            [i \in 1..Len(FirstK(arts, 3)) |-> arts[i].title],
            <<analysis, shown, flash>>)

\* lines 605-663: the optional reflection call, the relevance gate, and the
\* rendering of the report with its constrained-analysis call
Report(reflect_text, analysis_text) ==
    /\ proc.pc = "report"
    /\ ~ReflectionRuns(proc) => reflect_text = <<>>
    /\ NoInfo(proc) => analysis_text = <<>>
    /\ LET conf_match == Capture(reflect_text, CONFLICTS)
           detected_conflicts == IF conf_match.found THEN Strip(conf_match.group) ELSE <<>>
           reflected ==
               IF ReflectionRuns(proc)
               THEN [proc EXCEPT
                        !.detected_conflicts = detected_conflicts,
                        !.tools_used =
                            IF Lower(detected_conflicts) \notin NoConflict
                            THEN @ \o <<"reflection", "conflict_detected">>
                            ELSE Append(@, "reflection")]
               ELSE proc
           is_chinese_query == is_chinese(proc.prompt)
       IN proc' = IF NoInfo(reflected)
                  THEN [reflected EXCEPT
                           !.pc = "generate",
                           !.context = <<>>,
                           !.relevant_articles = <<>>,
                           !.max_similarity_score = 0,
                           !.final_prompt = NoInfoFinalPrompt(proc.prompt, is_chinese_query)]
                  ELSE [reflected EXCEPT
                           !.pc = "generate",
                           !.generated_text =
                               _render_structured_report(proc.prompt,
                                   FirstK(reflected.relevant_articles, 3),
                                   is_chinese_query, reflected.detected_conflicts,
                                   analysis_text),
                           !.tools_used = Append(@, "template_report"),
                           !.final_prompt = NoneText]
    /\ UNCHANGED <<ragVars, rpcVars, rateVars, txVars>>

\* lines 665-727: the generation call or the streaming sentinel, the
\* follow-up suggestions, the response that is published; stream_mode is the
\* request's field, read at line 300 and used here for the first time
Respond(stream_mode, llm_text, use_openrouter, suggest_text) ==
    LET ParseSuggestions(suggest_text0) ==
            LET clean == [i \in 1..Len(suggest_text0) |-> Strip(StripNumbering(Strip(suggest_text0[i])))]
                keep(line) == line # <<>> /\ (line[Len(line)] = "?" \/ Len(line) > 5)
            IN FirstK(Unique(SelectSeq(clean, keep), {}), 3)
    IN
    /\ proc.pc = "generate"
    /\ LET generated_text ==
               IF proc.generated_text = EmptyText
               THEN IF stream_mode /\ ~use_openrouter THEN STREAMING_READY
                    ELSE Text("llm", <<>>, <<>>, <<>>, <<llm_text>>)
               ELSE proc.generated_text
           suggesting == /\ proc.use_rag
                         /\ proc.relevant_articles # <<>>
                         /\ proc.context # <<>>
                         /\ generated_text # STREAMING_READY
           suggestions == IF suggesting THEN ParseSuggestions(suggest_text) ELSE <<>>
       IN /\ ~suggesting => suggest_text = <<>>
          /\ proc' = [proc EXCEPT
                         !.pc = "done",
                         !.stream_mode = stream_mode,
                         !.generated_text = generated_text,
                         !.response =
                             [status |-> "success",
                              response |-> generated_text,
                              suggestions |-> suggestions,
                              final_prompt |-> IF stream_mode /\ ~use_openrouter
                                               THEN proc.final_prompt ELSE NoneText,
                              rag_used |-> proc.use_rag,
                              articles_found |-> Len(proc.relevant_articles),
                              tools_used |-> proc.tools_used]]
    /\ UNCHANGED <<ragVars, rpcVars, rateVars, txVars>>

\* line 729: an exception that process_request does not catch inside
Raise ==
    /\ proc.pc \notin {"idle", "done", "failed"}
    /\ proc' = [ProcIdle EXCEPT !.pc = "failed", !.prompt = proc.prompt]
    /\ UNCHANGED <<ragVars, rpcVars, rateVars, txVars>>

\* process_request returns; the worker waits for the next request
Return ==
    /\ proc.pc \in {"done", "failed"}
    /\ proc' = ProcIdle
    /\ UNCHANGED <<ragVars, rpcVars, rateVars, txVars>>

OrchAtRest == proc = ProcIdle

\* RateLimiter.__init__: requests = defaultdict(list), read here for the user
\* ids of the model
RateAtRest ==
    LET Users == {"anonymous", "test_user_123"}
    IN /\ requests = [u \in Users |-> <<>>]
       /\ clock = 0
       /\ rate_log = <<>>
       /\ rateOp = [op |-> "init", user_id |-> "", allowed |-> FALSE, used |-> 0]

\* no store_article call is in progress in either process that writes the
\* store (the worker's RAGSystem and the periodic updater's)
TxAtRest ==
    LET Processes == {"worker", "updater"}
    IN store_calls = [p \in Processes |->
                         [pc |-> "idle", article |-> NoArg, ok |-> FALSE, how |-> ""]]

RagAtRest ==
    /\ now = 0
    /\ search_cache = <<>>
    /\ lastOp = OpOther("init")
    /\ served = [t \in SearchInputs |-> <<>>]
    /\ articles = {}
    /\ chunks = {}
    /\ nextArticleId = 1
    /\ faiss_index = NoIndex
    /\ faiss_cache = NoIndex

InitRpc ==
    /\ RagAtRest
    /\ OrchAtRest
    /\ RateAtRest
    /\ TxAtRest
    /\ llm_requests = <<>>
    /\ llm_responses = <<>>
    /\ callback_queues = [c \in Callers |-> NoQueue]
    /\ callers \in [Callers -> {CallerIdle(k) : k \in CallerKinds}]
    /\ rpcOp = RpcOp("init", "", NoMessage)
    /\ handled = [id \in RequestIds |-> NotHandled]

SpecRpc == InitRpc /\ [][NextRpc]_vars

InitOrch == RagAtRest /\ RpcAtRest /\ OrchAtRest /\ RateAtRest /\ TxAtRest

NextOrch ==
    \/ \E prompt \in Prompts : Start(prompt)
    \/ \E hits \in SearchHits(2, <<>>) : QuickSearch(hits)
    \/ \E use_fast_classifier \in BOOLEAN, fast_decision \in {None, "RAG", "NONE"} :
          Classify(use_fast_classifier, fast_decision)
    \/ \E hits \in SearchHits(3, <<>>) : FastPath(hits)
    \/ \E plan_text \in PlannerOutputs, raises \in BOOLEAN : Plan(plan_text, raises)
    \/ \E use_multi_query \in BOOLEAN, hits \in SearchHits(3, cat_filter(proc)) :
          RetrySingle(use_multi_query, hits)
    \/ \E use_multi_query \in BOOLEAN, variations_text \in VariationOutputs, raises \in BOOLEAN :
          RetryVariations(use_multi_query, variations_text, raises)
    \/ \E hits \in SearchHits(2, cat_filter(proc)) : MultiSearch(hits)
    \/ \E reflect_text \in ReflectOutputs, analysis_text \in AnalysisOutputs :
          Report(reflect_text, analysis_text)
    \/ \E stream_mode \in BOOLEAN, llm_text \in {<<"generated">>}, use_openrouter \in BOOLEAN,
          suggest_text \in SuggestOutputs :
          Respond(stream_mode, llm_text, use_openrouter, suggest_text)
    \/ Raise
    \/ Return

SpecOrch == InitOrch /\ [][NextOrch]_vars

----------------------------------------------------------------------------
(* Actions of the RAGSystem instance *)

StoreArticle(article, raises) ==
    LET \* the record of a call: its name, its argument (an article, an article id or
        \* a search request), its return value and whether the scorer ran
        OpStore(article0, ok) ==
            [op |-> "store", article |-> article0, article_id |-> 0, search |-> NoSearch,
             ok |-> ok, result |-> <<>>, computed |-> FALSE]
    IN
    LET r == store_article(articles, chunks, nextArticleId, faiss_index,
                           article, now, raises)
    IN /\ r.ok => nextArticleId <= MaxArticles
       /\ articles' = r.articles
       /\ chunks' = r.chunks
       /\ nextArticleId' = r.nextId
       /\ faiss_index' = r.index
       /\ lastOp' = OpStore(article, r.ok)
       /\ served' = IF r.ok THEN [t \in SearchInputs |-> <<>>] ELSE served
       /\ UNCHANGED <<faiss_cache, search_cache, now,
                    rpcVars, orchVars, rateVars, txVars>>

DeleteArticle(article_id) ==
    LET OpDelete(article_id0, ok) ==
            [op |-> "delete", article |-> NoArg, article_id |-> article_id0,
             search |-> NoSearch, ok |-> ok, result |-> <<>>, computed |-> FALSE]
    IN
    LET r == delete_article(articles, chunks, faiss_index, article_id)
    IN /\ articles' = r.articles
       /\ chunks' = r.chunks
       /\ faiss_index' = r.index
       /\ lastOp' = OpDelete(article_id, r.ok)
       /\ served' = IF r.ok THEN [t \in SearchInputs |-> <<>>] ELSE served
       /\ UNCHANGED <<nextArticleId, faiss_cache, search_cache, now,
                    rpcVars, orchVars, rateVars, txVars>>

SearchArticles(t) ==
    LET OpSearch(t0, result, computed) ==
            [op |-> "search", article |-> NoArg, article_id |-> 0, search |-> t0,
             ok |-> TRUE, result |-> result, computed |-> computed]
    IN
    LET r == search_articles(search_cache, faiss_index, articles, chunks,
                             t.query, t.top_k, t.category, now)
    IN /\ search_cache' = r.cache
       /\ lastOp' = OpSearch(t, r.ret, r.computed)
       /\ served' = [u \in SearchInputs |->
                        IF u = t THEN r.ret
                        ELSE IF ~CacheHas(r.cache, KeyOf(u)) THEN <<>>
                        ELSE served[u]]
       /\ UNCHANGED <<articles, chunks, nextArticleId, faiss_index, faiss_cache, now,
                    rpcVars, orchVars, rateVars, txVars>>

\* WarmCount searches of other queries, one after the other
WarmSearches ==
    LET \* the cache after search_articles(FillerQuery(i), top_k=2) for i = 1..WarmCount
        \* on an empty cache: every call is a miss on a new key and, below capacity,
        \* appends its entry when its result is cacheable
        WarmCache(index, rows, chunkRows, today) ==
            LET WarmCount == _cache_max_size - 1
            IN
            LET result(i) == ComputeResults(index, rows, chunkRows, FillerQuery(i), 2, None, today)
            IN IF \A i \in 1..WarmCount : ShouldCache(result(i))
               THEN [i \in 1..WarmCount |->
                        [key |-> _get_cache_key(FillerQuery(i), None, 2), value |-> result(i)]]
               ELSE <<>>
    IN
    /\ search_cache = <<>>
    /\ search_cache' = WarmCache(faiss_index, articles, chunks, now)
    /\ search_cache' # <<>>
    /\ lastOp' = OpOther("warm")
    /\ UNCHANGED <<articles, chunks, nextArticleId, faiss_index, faiss_cache, now, served,
                    rpcVars, orchVars, rateVars, txVars>>

Tick ==
    /\ now < MaxDay
    /\ now' = now + 1
    /\ lastOp' = OpOther("tick")
    /\ UNCHANGED <<articles, chunks, nextArticleId, faiss_index, faiss_cache, search_cache, served,
                    rpcVars, orchVars, rateVars, txVars>>

\* RAGSystem.__init__ on a new database: no rows, no index file, and
\* _init_faiss_index leaves faiss_index = None; or on a database that holds
\* one article, whose chunks _init_faiss_index loads into the index
SeedArticle == [link |-> "L0", title |-> <<"s">>,
                pub_date |-> [day |-> 0, minute |-> 0, fmt |-> "rfc822"]]

InitStore ==
    /\ RpcAtRest
    /\ OrchAtRest
    /\ RateAtRest
    /\ TxAtRest
    /\ now = 0
    /\ search_cache = <<>>
    /\ lastOp = OpOther("init")
    /\ served = [t \in SearchInputs |-> <<>>]
    /\ \/ /\ articles = {}
          /\ chunks = {}
          /\ nextArticleId = 1
          /\ faiss_index = NoIndex
          /\ faiss_cache = NoIndex
       \/ LET r == store_article({}, {}, 1, NoIndex, SeedArticle, 0, FALSE)
              i == _init_faiss_index(NoIndex, r.chunks, FALSE, FALSE)
          IN /\ articles = r.articles
             /\ chunks = r.chunks
             /\ nextArticleId = r.nextId
             /\ faiss_index = i.index
             /\ faiss_cache = i.cache

\* the store alone: store_article, delete_article and the clock
NextStore ==
    \/ \E a \in ArticleInputs, raises \in BOOLEAN : StoreArticle(a, raises)
    \/ \E id \in 1..MaxArticles : DeleteArticle(id)
    \/ Tick

SpecStore == InitStore /\ [][NextStore]_vars

\* the store with searches: two articles, one per topic
SearchArticleInputs ==
    {[link |-> "L1", title |-> <<"a", "b">>, pub_date |-> [day |-> 0, minute |-> 0, fmt |-> "rfc822"]],
     [link |-> "L2", title |-> <<"x", "y">>, pub_date |-> [day |-> 0, minute |-> 0, fmt |-> "rfc822"]]}

NextSearch ==
    \/ \E a \in SearchArticleInputs, raises \in BOOLEAN : StoreArticle(a, raises)
    \/ \E id \in 1..MaxArticles : DeleteArticle(id)
    \/ \E t \in SearchInputs : SearchArticles(t)
    \/ WarmSearches

SpecSearch == InitStore /\ [][NextSearch]_vars

----------------------------------------------------------------------------
(* Claims about the article store *)

UniqueLinks == \A r1, r2 \in articles : r1.link = r2.link => r1 = r2

DuplicateLinkRejected ==
    (lastOp'.op = "store" /\ LinkExists(articles, lastOp'.article.link))
        => /\ lastOp'.ok = FALSE
           /\ articles' = articles
           /\ chunks' = chunks

\* C5: no two stored articles ever share a link, and a store_article call
\* whose link is already present returns false and leaves the article rows
\* and the chunk rows as they were.
C5_LinkDedup == []UniqueLinks /\ [][DuplicateLinkRejected]_vars

\* a store call was rejected for its link alone: the link is stored, and no
\* article of today matches the title
C5_Witness ==
    /\ lastOp.op = "store"
    /\ lastOp.ok = FALSE
    /\ LinkExists(articles, lastOp.article.link)
    /\ ~SemanticDuplicate(articles, lastOp.article, now)

\* C6 as stated: a stored article A and an article B with another link, a
\* pub_date on the same calendar day as A's and a title containing or contained
\* in A's: store(B) returns false and adds no article, whatever the day.
C6_SameDayAnyDay ==
    [][(/\ lastOp'.op = "store"
        /\ \E r \in articles :
              /\ r.link # lastOp'.article.link
              /\ r.pub_date.day = lastOp'.article.pub_date.day
              /\ TitleMatch(lastOp'.article.title, r.title))
       => (lastOp'.ok = FALSE /\ articles' = articles)]_vars

----------------------------------------------------------------------------
(* Claims about search_articles and the search cache *)

\* what the scorer returns for a request on the store as it is now
FreshResults(t) ==
    ComputeResults(faiss_index, articles, chunks, t.query, t.top_k, t.category, now)

\* C7: a search returns what a fresh computation over the current store
\* returns, so it reflects every store_article and delete_article call that
\* completed before it.
C7_SearchReflectsWrites ==
    lastOp.op = "search" => lastOp.result = FreshResults(lastOp.search)

\* C8: a search with the (query, category, top_k) of an earlier search that
\* returned a non-empty list, with no write and no eviction of its key in
\* between, returns that list, and the scorer does not run.
C8_CacheHitReturnsStored ==
    [][\A t \in SearchInputs :
          (lastOp'.op = "search" /\ lastOp'.search = t /\ served[t] # <<>>)
              => /\ lastOp'.result = served[t]
                 /\ lastOp'.computed = FALSE]_vars

\* a search answered from the cache with a non-empty list
C8_Witness ==
    /\ lastOp.op = "search"
    /\ lastOp.computed = FALSE
    /\ lastOp.result # <<>>
    /\ served[lastOp.search] = lastOp.result

NoEmptyCacheEntry ==
    \A i \in 1..Len(search_cache) : search_cache[i].value # <<>>

\* C9: no cache entry ever maps to an empty list, and a search whose result
\* is empty leaves the cache as it was (nothing added, nothing evicted).
C9_EmptyNeverCached ==
    /\ []NoEmptyCacheEntry
    /\ [][(lastOp'.op = "search" /\ lastOp'.result = <<>>)
            => search_cache' = search_cache]_vars

\* a search on a full cache missed, computed an empty list, and its key is
\* not in the cache
C9_Witness ==
    /\ lastOp.op = "search"
    /\ lastOp.computed
    /\ lastOp.result = <<>>
    /\ Len(search_cache) = _cache_max_size
    /\ ~CacheHas(search_cache, KeyOf(lastOp.search))

CacheStep ==
    lastOp'.op = "search" =>
        IF ~lastOp'.computed \/ lastOp'.result = <<>>
        THEN search_cache' = search_cache
        ELSE LET entry == [key |-> KeyOf(lastOp'.search), value |-> lastOp'.result]
             IN IF Len(search_cache) < _cache_max_size
                THEN search_cache' = Append(search_cache, entry)
                ELSE search_cache' = Append(Tail(search_cache), entry)

\* C10: the cache never holds more than 100 entries; an insert at capacity
\* drops exactly the entry inserted earliest and appends the new one; a hit
\* leaves the cache, and so the eviction order, as it was.
C10_BoundedInsertionOrder ==
    /\ [](Len(search_cache) <= _cache_max_size)
    /\ [][CacheStep]_vars

\* an insert at capacity has evicted the earliest entry, that of FillerQuery(1)
C10_Witness ==
    /\ lastOp.op = "search"
    /\ lastOp.computed
    /\ Len(search_cache) = _cache_max_size
    /\ search_cache[1].key = _get_cache_key(FillerQuery(2), None, 2)
    /\ search_cache[_cache_max_size].key = KeyOf(lastOp.search)

----------------------------------------------------------------------------
(* Claims about the queue RPC *)

\* C3: with two requests outstanding at once under different request ids,
\* a caller that returns or emits a response returns the response to its own
\* request, on the shared response queue and on an exclusive reply queue
C3_OwnResponseOnly ==
    \A c \in Callers :
        (callers[c].pc = "done" /\ callers[c].response_data # NoMessage)
            => callers[c].response_data.request_id = callers[c].request_id

\* a caller on the shared queue has returned its own response after pulling
\* the response to the other caller's request, while the other caller is
\* still waiting for it
C3_Witness ==
    \E c, d \in Callers :
        /\ c # d
        /\ callers[c].kind = "shared"
        /\ callers[c].pc = "done"
        /\ callers[c].response_data.request_id = callers[c].request_id
        /\ callers[c].checked_messages = 2
        /\ callers[d].pc = "waiting"
        /\ callers[d].request_id # callers[c].request_id

\* C4 as stated: a response that a caller pulls from the shared response
\* queue and that answers another caller's request remains in the queue for
\* that caller
C4_ForeignResponseRemains ==
    [][(/\ rpcOp'.op = "nack"
        /\ rpcOp'.msg.request_id # callers[rpcOp'.caller].request_id)
        => \E i \in 1..Len(llm_responses') : llm_responses'[i] = rpcOp'.msg]_vars

----------------------------------------------------------------------------
(* Claims about the orchestrator *)

\* a short query in the sense of the guardrail: CJK of at most 4 characters,
\* or Latin of at most 10
IsShortQuery(prompt) ==
    IF is_chinese(prompt) THEN Len(prompt) <= 4 ELSE Len(prompt) <= 10

\* the article holds the prompt, or its variant with the two forms of the
\* horse character swapped, in its title, summary or content; for a Latin
\* prompt the case of the letters is not compared
HoldsLiteralPrompt(a, prompt) ==
    IF is_chinese(prompt) THEN LexMatch(a, prompt) ELSE LexMatchEn(a, prompt)

\* C1 as stated: for a short query, every article counted in articles_found
\* and cited in the report holds the literal prompt or its character-swapped
\* variant, on the fast path and after the planner retry alike
C1_ShortQueryGuardrail ==
    (proc.pc = "done" /\ IsShortQuery(proc.prompt))
        => \A i \in 1..Len(proc.relevant_articles) :
               HoldsLiteralPrompt(proc.relevant_articles[i], proc.prompt)

\* C2 as stated: when retrieval ran and the relevance gate found no survivor
\* or a best score under 0.45, the response text is the templated
\* no-information report, with rag_used = true and articles_found = 0
C2_NoInfoReport ==
    (/\ proc.pc = "done"
     /\ proc.use_rag
     /\ proc.final_prompt = NoInfoFinalPrompt(proc.prompt, is_chinese(proc.prompt)))
        => /\ proc.response.response = NoInfoFinalPrompt(proc.prompt, is_chinese(proc.prompt))
           /\ proc.response.rag_used
           /\ proc.response.articles_found = 0

----------------------------------------------------------------------------
(* The ambiguity gate, the greeting filter and the out-of-scope router *)

Used(tool) == \E i \in 1..Len(proc.tools_used) : proc.tools_used[i] = tool

Distinct(items) == \A i, j \in 1..Len(items) : items[i] = items[j] => i = j

\* C11 as stated: a request that the ambiguity gate answers with a clarifying
\* question gets a response offering exactly three distinct follow-up
\* options, with articles_found = 0 and without the fast path, the planner or
\* the renderer having run; a very short query that is neither a greeting
\* nor out of scope nor answered with a clarifying question has gone through
\* the fast path.
C11_AmbiguityGate ==
    /\ (proc.pc = "done" /\ proc.needs_clarification) =>
          /\ proc.response.response.kind \in {"clarify_zh", "clarify_en"}
          /\ Len(proc.response.response.items) = 3
          /\ Distinct(proc.response.response.items)
          /\ proc.response.articles_found = 0
          /\ ~Used("RAG_fast") /\ ~Used("template_report") /\ ~proc.planner_used
    /\ (/\ proc.pc = "done" /\ proc.is_ambiguous = FALSE
        /\ proc.search_calls > 0 /\ IsShortQuery(proc.prompt)
        /\ (is_chinese(proc.prompt) => Len(proc.prompt) <= 3)) =>
          Used("RAG_fast")

ShortCircuited == Used("greeting_filter") \/ Used("router_weather_out_of_scope")

CannedKinds == {"greeting_zh", "greeting_en", "weather_out_of_scope"}

C13_SearchBudget ==
    /\ proc.search_calls <= 2
    /\ proc.pc = "done" =>
          /\ ShortCircuited => proc.search_calls = 0
          /\ Used("fast_path_accept") => proc.search_calls = 1
          /\ proc.planner_used => proc.search_calls = 2

----------------------------------------------------------------------------
(* The worker's side of the queue RPC *)

HasOp(id, op) == \E i \in 1..Len(handled[id].ops) : handled[id].ops[i].op = op

\* process_request has just returned without an exception
WorkerSucceeds ==
    /\ llm_requests # <<>>
    /\ handled'[Head(llm_requests).request_id].ops
          = handled[Head(llm_requests).request_id].ops
               \o <<BrokerOp("publish", ReplyDestination(Head(llm_requests)), rpcOp'.msg),
                    BrokerOp("ack", "", NoMessage)>>

\* the one message the step has added, to the queue the request names
PublishedOnce ==
    LET request == Head(llm_requests)
        m == rpcOp'.msg
    IN /\ m.request_id = request.request_id
       /\ m.correlation_id = request.correlation_id
       /\ IF request.reply_to = None
          THEN /\ llm_responses' = Append(llm_responses, m)
               /\ callback_queues' = callback_queues
          ELSE /\ llm_responses' = llm_responses
               /\ callback_queues[request.reply_to].declared =>
                     callback_queues' =
                        [callback_queues EXCEPT ![request.reply_to].messages = Append(@, m)]

\* C14: a request processed without an exception gets exactly one response,
\* published to its reply-to queue when it names one and to llm_responses
\* otherwise, carrying its request_id and its correlation id; the request is
\* acknowledged once, after that publish, and never rejected.
C14_PublishThenAck ==
    /\ [](\A id \in RequestIds :
            HasOp(id, "ack") =>
               /\ Len(handled[id].ops) = 2
               /\ handled[id].ops[1].op = "publish"
               /\ handled[id].ops[2].op = "ack"
               /\ handled[id].ops[1].to = ReplyDestination(handled[id].request)
               /\ handled[id].ops[1].msg.request_id = id
               /\ handled[id].ops[1].msg.correlation_id = handled[id].request.correlation_id)
    /\ [][WorkerSucceeds => PublishedOnce]_vars

\* one request answered on its exclusive reply queue and one on llm_responses
C14_Witness ==
    \E c, d \in Callers :
        /\ callers[c].kind = "exclusive" /\ callers[d].kind = "shared"
        /\ HasOp(NewRequestId(c), "ack") /\ HasOp(NewRequestId(d), "ack")
        /\ Len(callback_queues[c].messages) = 1
        /\ callback_queues[c].messages[1].request_id = NewRequestId(c)
        /\ Len(llm_responses) = 1
        /\ llm_responses[1].request_id = NewRequestId(d)

\* C15: a request whose processing raised has been rejected exactly once and
\* never acknowledged, was delivered once and is no longer in the request
\* queue, so no worker gets it again; and the worker still takes the next
\* request of the queue.
C15_PoisonDropped ==
    \A id \in RequestIds :
        HasOp(id, "nack") =>
            /\ handled[id].ops = <<BrokerOp("nack", "", NoMessage)>>
            /\ handled[id].deliveries = 1
            /\ \A i \in 1..Len(llm_requests) : llm_requests[i].request_id # id
            /\ llm_requests # <<>> =>
                  ENABLED (\E text \in ResponseTexts, raises \in BOOLEAN :
                              WorkerProcess(text, raises))

\* the worker has just answered a request after it had rejected another one
C15_Witness ==
    \E id, later \in RequestIds :
        /\ id # later
        /\ handled[id].ops = <<BrokerOp("nack", "", NoMessage)>>
        /\ rpcOp.op = "publish" /\ rpcOp.msg.request_id = later
        /\ HasOp(later, "ack")

\* C16 as stated: for a request whose processing raised, the worker has
\* published an error response (status = error) with the request's
\* request_id to the request's reply destination.
C16_ErrorResponsePublished ==
    \A id \in RequestIds :
        HasOp(id, "nack") =>
            \E i \in 1..Len(handled[id].ops) :
                /\ handled[id].ops[i].op = "publish"
                /\ handled[id].ops[i].to = ReplyDestination(handled[id].request)
                /\ handled[id].ops[i].msg.request_id = id
                /\ handled[id].ops[i].msg.status = "error"

----------------------------------------------------------------------------
(* The streaming bridge *)

Count(events, type) == Cardinality({i \in 1..Len(events) : events[i] = type})

\* C17: a caller of the streaming bridge whose wait ran into the timeout has
\* stopped, its exclusive reply queue is deleted, and its stream holds exactly
\* one error event and no metadata, chunk or done event.
C17_TimeoutEvent ==
    \A c \in Callers :
        (callers[c].kind = "exclusive" /\ callers[c].timed_out) =>
            /\ callers[c].pc = "done"
            /\ callers[c].response_data = NoMessage
            /\ ~callback_queues[c].declared
            /\ Count(callers[c].events, "error") = 1
            /\ Count(callers[c].events, "metadata") = 0
            /\ Count(callers[c].events, "chunk") = 0
            /\ Count(callers[c].events, "done") = 0

\* a caller timed out although the worker went on to answer its request
C17_Witness ==
    \E c \in Callers :
        /\ callers[c].kind = "exclusive" /\ callers[c].timed_out
        /\ HasOp(callers[c].request_id, "ack")
        /\ callers[c].events = <<"status", "error">>

EventRank(type) ==
    IF type = "status" THEN 1
    ELSE IF type = "metadata" THEN 2
    ELSE IF type = "chunk" THEN 3
    ELSE IF type = "error" THEN 4
    ELSE 5

\* C18 as stated: the events of a stream appear in the order status,
\* metadata, chunk, error, done: none is followed by an event of an earlier
\* type, and nothing follows done.
C18_EventOrder ==
    \A c \in Callers :
        \A i, j \in 1..Len(callers[c].events) :
            i < j =>
               /\ EventRank(callers[c].events[i]) <= EventRank(callers[c].events[j])
               /\ callers[c].events[i] # "done"

----------------------------------------------------------------------------
(* RAGSystem._calculate_temporal_weight on its own *)

\* the oldest article of the calls, in days
MaxAgeDays == 31

\* one call of _calculate_temporal_weight at clock reading today
TemporalWeight(pub_date, today) ==
    /\ now' = today
    /\ lastOp' = [OpOther("weight") EXCEPT
                     !.article = [NoArg EXCEPT !.pub_date = pub_date],
                     !.result = _calculate_temporal_weight(pub_date, today)]
    /\ UNCHANGED <<articles, chunks, nextArticleId, faiss_index, faiss_cache, search_cache, served,
                    rpcVars, orchVars, rateVars, txVars>>

\* pub_date strings of the calls: a day, a minute of that day, and the format;
\* "" is the missing date and "other" a string neither parser accepts
NextWeight ==
    \E pub_date \in [day : 0..MaxAgeDays, minute : {0, 1, 720, 721, 1439},
                      fmt : {"rfc822", "iso", "other", ""}] :
        TemporalWeight(pub_date, MaxAgeDays)

SpecWeight == InitOrch /\ [][NextWeight]_vars

Weighed == lastOp.op = "weight"

Parsed == lastOp.article.pub_date.fmt \in {"rfc822", "iso"}

\* age of the article of the last call, in minutes
AgeMinutes == (now - lastOp.article.pub_date.day) * 24 * 60 - lastOp.article.pub_date.minute

\* C19: the weight is 1.5 for an age under 12 h, else 1.3 under 24 h, else
\* 1.1 under 72 h, else 1.0 under 168 h, else 0.8 under 720 h, else 0.5, all
\* comparisons strict; a missing or unparsable date gives 0.7.
C19_StepFunction ==
    Weighed =>
        IF ~Parsed THEN lastOp.result = 7
        ELSE /\ AgeMinutes < 12 * 60 => lastOp.result = 15
             /\ (AgeMinutes >= 12 * 60 /\ AgeMinutes < 24 * 60) => lastOp.result = 13
             /\ (AgeMinutes >= 24 * 60 /\ AgeMinutes < 72 * 60) => lastOp.result = 11
             /\ (AgeMinutes >= 72 * 60 /\ AgeMinutes < 168 * 60) => lastOp.result = 10
             /\ (AgeMinutes >= 168 * 60 /\ AgeMinutes < 720 * 60) => lastOp.result = 8
             /\ AgeMinutes >= 720 * 60 => lastOp.result = 5

\* an article exactly 24 hours old
C19_Witness ==
    Weighed /\ Parsed /\ AgeMinutes = 24 * 60 /\ lastOp.result = 11

\* C20 as stated: 11h59m gives 1.5, 12h00m 1.3, 23h59m 1.3, 72h00m 1.1,
\* 168h01m 0.8, 30 days 0.5.
C20_ListedValues ==
    (Weighed /\ Parsed) =>
        /\ AgeMinutes = 11 * 60 + 59 => lastOp.result = 15
        /\ AgeMinutes = 12 * 60 => lastOp.result = 13
        /\ AgeMinutes = 23 * 60 + 59 => lastOp.result = 13
        /\ AgeMinutes = 72 * 60 => lastOp.result = 11
        /\ AgeMinutes = 168 * 60 + 1 => lastOp.result = 8
        /\ AgeMinutes = 30 * 24 * 60 => lastOp.result = 5

\* C20 amended: 11h59m gives 1.5, 12h00m 1.3, 23h59m 1.3, 72h00m 1.0,
\* 168h01m 0.8, 30 days 0.5; an age exactly at a threshold gets the weight of
\* the bucket that starts there, the less aggressive one.
C20_ListedValuesStrict ==
    (Weighed /\ Parsed) =>
        /\ AgeMinutes = 11 * 60 + 59 => lastOp.result = 15
        /\ AgeMinutes = 12 * 60 => lastOp.result = 13
        /\ AgeMinutes = 23 * 60 + 59 => lastOp.result = 13
        /\ AgeMinutes = 24 * 60 => lastOp.result = 11
        /\ AgeMinutes = 72 * 60 => lastOp.result = 10
        /\ AgeMinutes = 168 * 60 => lastOp.result = 8
        /\ AgeMinutes = 168 * 60 + 1 => lastOp.result = 8
        /\ AgeMinutes = 30 * 24 * 60 => lastOp.result = 5

\* an article exactly 72 hours old
C20_Witness ==
    Weighed /\ Parsed /\ AgeMinutes = 72 * 60 /\ lastOp.result = 10

----------------------------------------------------------------------------
(* RAGSystem._apply_bm25_hybrid on its own *)

\* candidates of one call
MaxCandidates == 2

\* lines 833-842: max_bm25, normalized_bm25 (1e-2) and the blended similarity
\* (1e-4) of every result; the raw scores of the model divide exactly
_apply_bm25_hybrid(results, bm25_scores) ==
    LET top == CHOOSE m \in {bm25_scores[i] : i \in 1..Len(bm25_scores)} :
                   \A i \in 1..Len(bm25_scores) : m >= bm25_scores[i]
        max_bm25 == IF top > 0 THEN top ELSE 1
        normalized_bm25 == [i \in 1..Len(bm25_scores) |->
                               (bm25_scores[i] * 100) \div max_bm25]
    IN [i \in 1..Len(results) |->
           [similarity |-> 60 * results[i].similarity + 40 * normalized_bm25[i],
            bm25_score |-> normalized_bm25[i],
            original_sim |-> results[i].similarity]]

\* one call of _apply_bm25_hybrid
ApplyBm25Hybrid(input) ==
    /\ lastOp' = [OpOther("bm25_hybrid") EXCEPT
                     !.result = _apply_bm25_hybrid(input.results, input.bm25_scores)]
    /\ UNCHANGED <<articles, chunks, nextArticleId, faiss_index, faiss_cache, search_cache, served,
                    now, rpcVars, orchVars, rateVars, txVars>>

\* the candidate lists of the calls, by their vector scores (1e-2), and with
\* each the scores BM25Okapi.get_scores returns for them: BM25Okapi gives a
\* term that occurs in more than half of the documents a negative weight, so
\* a score can be negative
NextHybrid ==
    \E input \in UNION {[results : [1..n -> [similarity : {30, 50, 80}]],
                         bm25_scores : [1..n -> {-1, 0, 1, 2}]] : n \in 1..MaxCandidates} :
        ApplyBm25Hybrid(input)

SpecHybrid == InitOrch /\ [][NextHybrid]_vars

\* C21 as stated: after lexical scoring every normalized BM25 score lies in
\* [0,1] and every candidate's score is 0.6 times its vector score plus 0.4
\* times its normalized BM25 score.
C21_HybridBlend ==
    lastOp.op = "bm25_hybrid" =>
        \A i \in 1..Len(lastOp.result) :
            /\ lastOp.result[i].bm25_score >= 0
            /\ lastOp.result[i].bm25_score <= 100
            /\ lastOp.result[i].similarity
                  = 60 * lastOp.result[i].original_sim + 40 * lastOp.result[i].bm25_score

----------------------------------------------------------------------------
(* The periodic RSS updater beside a running query worker *)

\* update_rss_periodic.main(): the updater process owns a RAGSystem instance of
\* its own; update_rss_feed calls store_article on it for a fetched article.
\* The rows go to the shared database; the index that store_article rebuilds
\* is the updater's, in the updater's memory, and no file is written. The
\* worker's faiss_index and _search_cache belong to the worker's instance
UpdateRssFeed(article, raises) ==
    LET r == store_article(articles, chunks, nextArticleId, NoIndex,
                           article, now, raises)
    IN /\ r.ok => nextArticleId <= MaxArticles
       /\ articles' = r.articles
       /\ chunks' = r.chunks
       /\ nextArticleId' = r.nextId
       /\ lastOp' = [OpOther("update_rss_feed") EXCEPT !.article = article, !.ok = r.ok]
       /\ served' = IF r.ok THEN [t \in SearchInputs |-> <<>>] ELSE served
       /\ UNCHANGED <<faiss_index, faiss_cache, search_cache, now,
                    rpcVars, orchVars, rateVars, txVars>>

\* the updater stores, the worker searches
NextIngest ==
    \/ \E a \in SearchArticleInputs, raises \in BOOLEAN : UpdateRssFeed(a, raises)
    \/ \E t \in SearchInputs : SearchArticles(t)
    \/ Tick

SpecIngest == InitStore /\ [][NextIngest]_vars

\* C22 as stated: the worker's vector index is rebuilt or updated before the
\* worker's next search that depends on an article the updater stored, so a
\* search of the worker that runs the scorer over its vector index finds in
\* it an entry for every chunk row of the store
C22_IngestedRetrievable ==
    (lastOp.op = "search" /\ lastOp.computed /\ faiss_index.present)
        => faiss_index.entries = chunks

----------------------------------------------------------------------------
(* The vector index after a write of the same instance *)

\* C23 as stated: after every store_article and every delete_article call that
\* returns true, the vector index of the instance has been rebuilt and holds
\* exactly one entry per chunk row, whatever the store and the index held before
C23_RebuiltAfterWrite ==
    (lastOp.op \in {"store", "delete"} /\ lastOp.ok)
        => (faiss_index.present /\ faiss_index.entries = chunks)

----------------------------------------------------------------------------
(* Restart of the process that owns the RAGSystem instance *)

\* RAGSystem.__init__ in a new process: faiss_index = None, an empty
\* _search_cache, then _init_faiss_index
Restart(read_fails, write_fails) ==
    LET i == _init_faiss_index(faiss_cache, chunks, read_fails, write_fails)
    IN /\ faiss_index' = i.index
       /\ faiss_cache' = i.cache
       /\ search_cache' = <<>>
       /\ served' = [t \in SearchInputs |-> <<>>]
       /\ lastOp' = OpOther("restart")
       /\ UNCHANGED <<articles, chunks, nextArticleId, now, rpcVars, orchVars, rateVars, txVars>>

NextRestart ==
    \/ \E a \in ArticleInputs, raises \in BOOLEAN : StoreArticle(a, raises)
    \/ \E id \in 1..MaxArticles : DeleteArticle(id)
    \/ \E read_fails, write_fails \in BOOLEAN : Restart(read_fails, write_fails)
    \/ Tick

SpecRestart == InitStore /\ [][NextRestart]_vars

\* C24 as stated: after a restart the vector index holds exactly one entry per
\* chunk row of the store at startup, whether it was loaded from the persisted
\* files or built in memory
C24_IndexAfterRestart ==
    lastOp.op = "restart" => faiss_index.entries = chunks

----------------------------------------------------------------------------
(* store_article when an enrichment service fails *)

\* C26 as stated: when summarization, classification or embedding fails while
\* an article is stored, the insert still proceeds and store_article returns
\* true; so a call that returned false was of an article whose link or whose
\* same-day title is already in the store
C26_InsertProceeds ==
    (lastOp.op = "store" /\ ~lastOp.ok)
        => \/ LinkExists(articles, lastOp.article.link)
           \/ SemanticDuplicate(articles, lastOp.article, now)

----------------------------------------------------------------------------
(* process_request: failures of a stage *)

\* C25 as stated: when a stage inside the orchestrator fails, a retrieval call
\* among them, the request still gets its response; so no step taken at a
\* retrieval stage ends the request without a response. The retrieval stages
\* are those whose next call is rag.search_articles (lines 375, 512, 587, 592)
C25_StageFailureAnswered ==
    [][proc.pc \in {"quick", "fast", "retry", "multi"} => proc'.pc # "failed"]_vars

----------------------------------------------------------------------------
(* process_request: the fast path and the planner *)

\* C27: the planner runs exactly for the requests whose fast path was not
\* accepted, that is whose best surviving score is below 0.62 or that kept no
\* article, and once at most; an accepted fast path is followed by no planner
\* call, no HyDE expansion, no multi-query and no further search
C27_PlannerIffNotAccepted ==
    /\ [](/\ proc.planner_used => (Used("RAG_fast") /\ ~Used("fast_path_accept"))
          /\ Used("planner") => proc.planner_used
          /\ Count(proc.tools_used, "planner") <= 1
          /\ proc.pc = "plan" =>
                (proc.relevant_articles = <<>> \/ proc.max_similarity_score < 62)
          /\ proc.pc \in {"retry", "multi"} => proc.planner_used
          /\ (Used("RAG_fast") /\ ~Used("fast_path_accept")
                /\ proc.pc \in {"report", "generate", "done"}) => proc.planner_used
          /\ Used("fast_path_accept") =>
                /\ proc.pc \in {"report", "generate", "done"}
                /\ ~Used("planner") /\ ~Used("hyde")
                /\ proc.queries = <<>> /\ proc.hyde_summary = <<>>
                /\ Count(proc.tools_used, "RAG_fast") = 1
          /\ (Used("fast_path_accept") /\ proc.pc = "report") =>
                (proc.relevant_articles # <<>> /\ proc.max_similarity_score >= 62))
    /\ [][(Used("fast_path_accept") /\ proc'.pc \notin {"idle", "failed"}) =>
             /\ proc'.search_calls = proc.search_calls
             /\ ~proc'.planner_used]_vars

\* the fast path kept an article with a score just below 0.62 and the planner
\* has answered
C27_Witness ==
    /\ proc.pc = "retry"
    /\ proc.planner_used /\ Used("planner")
    /\ proc.max_similarity_score = 61

----------------------------------------------------------------------------
(* process_request: the retry after the planner *)

\* C28 as stated: the retry results replace the fast-path evidence only when
\* their best score is higher, so the best score that reaches the reflection
\* and the relevance gate is never lower than the best score of the fast path
C28_RetryKeepsBest ==
    [][(proc.pc \in {"retry", "multi"} /\ proc'.pc = "report") =>
          proc'.max_similarity_score >= proc.max_similarity_score]_vars

\* C29 as stated: a planner output without a usable KEYWORDS field (no such
\* line, or an empty value) leaves the original prompt as the search query,
\* and the retry query of a non-empty prompt is never empty
C29_PlannerFallback ==
    [][\A plan_text \in PlannerOutputs :
          (/\ Plan(plan_text, FALSE)
           /\ ~\E i \in 1..Len(plan_text) :
                  plan_text[i].label = KEYWORDS /\ Strip(plan_text[i].value) # <<>>)
          => (proc'.search_query = proc.prompt /\ retry_query(proc') # <<>>)]_vars

\* C30 as stated: multi-query searches the retry query and each of the (at
\* most two) paraphrase variants, in that order
C30_MultiQuerySearches ==
    [][\A variations_text \in VariationOutputs :
          RetryVariations(TRUE, variations_text, FALSE)
          => proc'.queries =
                <<retry_query(proc)>>
                \o Tail(generate_query_variations(proc.search_query, variations_text))]_vars

----------------------------------------------------------------------------
(* process_request: the quick search of the ambiguity gate *)

\* C31 as stated: the ambiguity gate lets a query pass as not ambiguous only
\* on a quick result that holds the literal query, for a short Latin query as
\* for a short CJK query
C31_QuickGuardrail ==
    [][\A hits \in SearchHits(2, <<>>) :
          (QuickSearch(hits) /\ ~proc'.needs_clarification)
          => \E i \in 1..Len(hits) : HoldsLiteralPrompt(hits[i], proc.prompt)]_vars

----------------------------------------------------------------------------
(* process_request: the rendered report *)

\* the response of a finished request is a rendered report
Rendered ==
    /\ proc.pc = "done"
    /\ proc.response.response.kind \in {"report_zh", "report_en"}

\* the fact bullets and the source entries of the report are those of the
\* first n accepted articles, n at most 3, numbered alike, and the first of
\* them has the highest score
CitationsResolve ==
    LET report == proc.response.response
        accepted == proc.relevant_articles
        n == Len(report.arts)
    IN /\ n = Len(report.items)
       /\ n >= 1 /\ n <= 3 /\ n <= Len(accepted)
       /\ n = 3 \/ n = Len(accepted)
       /\ \A i \in 1..n : /\ report.arts[i] = accepted[i].id
                          /\ report.items[i] = accepted[i].title
       /\ \A j \in 1..Len(accepted) : accepted[1].similarity >= accepted[j].similarity

\* C32 as stated: every fact bullet and source entry comes from one of the at
\* most three accepted articles, numbered [1..n], and the flash line is the
\* title of the highest-scoring accepted article cited as [1]
C32_ReportFromEvidence ==
    Rendered =>
        /\ CitationsResolve
        /\ proc.response.response.body[3] =
               <<"flash">> \o proc.relevant_articles[1].title \o <<"[1]">>

\* C32 amended: the flash line quotes the title of the highest-scoring accepted
\* article as [1] when that title is not empty; when it is empty the flash
\* line names the prompt and cites nothing
C32_ReportFromEvidenceTitled ==
    Rendered =>
        /\ CitationsResolve
        /\ proc.response.response.body[3] =
               IF proc.relevant_articles[1].title # <<>>
               THEN <<"flash">> \o proc.relevant_articles[1].title \o <<"[1]">>
               ELSE <<"insufficient">> \o proc.prompt

\* a report over two accepted articles of different scores, after the planner
\* retry, whose best one has a title
C32_Witness ==
    /\ Rendered
    /\ proc.planner_used
    /\ Len(proc.response.response.arts) = 2
    /\ proc.relevant_articles[1].title # <<>>
    /\ proc.relevant_articles[1].similarity > proc.relevant_articles[2].similarity

\* C33 as stated: when the generation service fails during constrained
\* analysis, query-variation generation or follow-up generation, the stage's
\* fallback is used, and the service's error text is neither the analysis of a
\* rendered report, nor a searched query variant, nor a suggestion
C33_NoErrorText ==
    /\ Rendered => proc.response.response.body[1] # ErrorText
    /\ \A i \in 1..Len(proc.queries) : proc.queries[i] # ErrorText
    /\ \A i \in 1..Len(proc.response.suggestions) :
           proc.response.suggestions[i] # ErrorText

----------------------------------------------------------------------------
(* The streaming sentinel and final_prompt *)

\* C35: whenever the response text of the worker is the sentinel
\* "[STREAMING_READY]", the response carries a non-empty final_prompt (so
\* that the gateway streams from the generation service and never sends the
\* sentinel itself as a chunk)
C35_SentinelHasPrompt ==
    (proc.pc = "done" /\ proc.response.response = STREAMING_READY)
        => proc.response.final_prompt \notin {EmptyText, NoneText}

----------------------------------------------------------------------------
(* Chunk rows and their parent articles *)

\* C37: in every reachable state every chunk row's article_id is the id of
\* an article row; after an article is deleted none of its chunk rows
\* remains in the store
C37_NoOrphanChunks ==
    \A c \in chunks : \E a \in articles : a.id = c.article_id

----------------------------------------------------------------------------
(* store_article is all-or-nothing *)

----------------------------------------------------------------------------
(* The relevance gate and the articles of the report *)

\* C39: every article cited in a rendered report, and counted in
\* articles_found, has a final score of at least the relevance threshold
\* 0.45, not only the best-scoring one
C39_EveryCitedRelevant ==
    Rendered =>
        /\ proc.response.articles_found = Len(proc.relevant_articles)
        /\ \A i \in 1..Len(proc.relevant_articles) :
               proc.relevant_articles[i].similarity >= RELEVANCE_THRESHOLD

----------------------------------------------------------------------------
(* RateLimiter: is_allowed and get_stats *)

is_allowed_AtLimit(user_requests, current_time) ==
    LET cutoff_time == current_time - window_seconds
        InWindow(ts) == ts > cutoff_time
        kept == SelectSeq(user_requests, InWindow)
    IN IF Len(kept) <= max_requests
       THEN [allowed |-> TRUE, requests |-> Append(kept, current_time),
             remaining |-> max_requests - (Len(kept) + 1)]
       ELSE [allowed |-> FALSE, requests |-> kept, remaining |-> 0]

\* is_allowed(user_id) at time current_time: the timestamps at or before
\* the cutoff are dropped; below the limit the call is recorded and allowed
is_allowed(user_requests, current_time) ==
    LET cutoff_time == current_time - window_seconds
        InWindow(ts) == ts > cutoff_time
        kept == SelectSeq(user_requests, InWindow)
    IN IF Len(kept) < max_requests
       THEN [allowed |-> TRUE, requests |-> Append(kept, current_time),
             remaining |-> max_requests - (Len(kept) + 1)]
       ELSE [allowed |-> FALSE, requests |-> kept, remaining |-> 0]

\* chat_stream: rate_limiter.is_allowed(user_id), current_time read from the
\* clock at the call
IsAllowed(user_id, current_time) ==
    /\ current_time >= clock
    /\ Len(rate_log) < MaxCalls
    /\ LET r == is_allowed(requests[user_id], current_time)
       IN /\ requests' = [requests EXCEPT ![user_id] = r.requests]
          /\ rate_log' = Append(rate_log, [user_id |-> user_id, time |-> current_time,
                                           allowed |-> r.allowed])
          /\ rateOp' = [op |-> "is_allowed", user_id |-> user_id,
                        allowed |-> r.allowed, used |-> Len(r.requests)]
    /\ clock' = current_time
    /\ UNCHANGED <<ragVars, rpcVars, orchVars, txVars>>

\* get_rate_limit_status: rate_limiter.get_stats(user_id) drops the expired
\* timestamps and reports the rest
GetStats(user_id, current_time) ==
    /\ current_time >= clock
    /\ LET cutoff_time == current_time - window_seconds
           InWindow(ts) == ts > cutoff_time
           kept == SelectSeq(requests[user_id], InWindow)
       IN /\ requests' = [requests EXCEPT ![user_id] = kept]
          /\ rateOp' = [op |-> "get_stats", user_id |-> user_id,
                        allowed |-> FALSE, used |-> Len(kept)]
    /\ clock' = current_time
    /\ UNCHANGED <<rate_log, ragVars, rpcVars, orchVars, txVars>>

NextRate ==
    \/ \E u \in DOMAIN requests, t \in 0..MaxTime : IsAllowed(u, t)
    \/ \E u \in DOMAIN requests, t \in 0..MaxTime : GetStats(u, t)

SpecRate == InitOrch /\ [][NextRate]_vars

\* C40: for every user at most max_requests calls of is_allowed are allowed
\* within any window of window_seconds; a denied call records no timestamp;
\* get_stats records none either and does not change the answer of the next
\* is_allowed; a call made once the oldest recorded request has left the
\* window is allowed
C40_SlidingWindow ==
    /\ [](\A u \in DOMAIN requests, t \in 0..MaxTime :
             Cardinality({i \in 1..Len(rate_log) :
                             /\ rate_log[i].user_id = u
                             /\ rate_log[i].allowed
                             /\ t <= rate_log[i].time
                             /\ rate_log[i].time < t + window_seconds}) <= max_requests)
    /\ [][\A u \in DOMAIN requests, t \in 0..MaxTime :
             /\ (IsAllowed(u, t) /\ ~rateOp'.allowed)
                    => /\ Len(requests'[u]) <= Len(requests[u])
                       /\ \A i \in 1..Len(requests'[u]) :
                              \E j \in 1..Len(requests[u]) : requests[u][j] = requests'[u][i]
             /\ (IsAllowed(u, t) /\ requests[u] # <<>>
                    /\ \E j \in 1..Len(requests[u]) : requests[u][j] + window_seconds <= t)
                    => rateOp'.allowed
             /\ GetStats(u, t)
                    => /\ Len(requests'[u]) <= Len(requests[u])
                       /\ \A i \in 1..Len(requests'[u]) :
                              \E j \in 1..Len(requests[u]) : requests[u][j] = requests'[u][i]
                       /\ rate_log' = rate_log
                       /\ is_allowed(requests'[u], t).allowed
                              = is_allowed(requests[u], t).allowed
                       /\ is_allowed(requests'[u], t).remaining
                              = is_allowed(requests[u], t).remaining]_vars

\* a user was denied at the limit and is allowed again later
C40_Witness ==
    /\ rateOp.op = "is_allowed" /\ rateOp.allowed
    /\ \E i \in 1..Len(rate_log) :
           /\ rate_log[i].user_id = rateOp.user_id
           /\ ~rate_log[i].allowed
           /\ Cardinality({j \in 1..(i - 1) : rate_log[j].user_id = rateOp.user_id
                                               /\ rate_log[j].allowed}) = max_requests
           /\ rate_log[Len(rate_log)].user_id = rateOp.user_id

----------------------------------------------------------------------------
(* RAGSystem.rerank_results on its own *)

\* one call of rerank_results: prior scores in 1e-2, the raw scores of
\* reranker.predict (a cross-encoder's logits, of either sign) in 1e-2, the
\* final scores in 1e-3; the raw scores above 1 of the model divide exactly
RerankResults(results, scores, top_k) ==
    LET rerank_results ==
            LET norm_score(score) == IF score > 100 THEN (score + 1000) \div 20 ELSE score
                candidates ==
                    [i \in 1..Len(results) |->
                        [id |-> i, prior |-> results[i].similarity, raw |-> scores[i],
                         similarity |-> results[i].similarity * 4 + norm_score(scores[i]) * 6]]
            IN FirstK(SortedBySimilarity(candidates), top_k)
    IN /\ Len(results) = Len(scores)
       /\ lastOp' = [OpOther("rerank") EXCEPT !.result = rerank_results]
       /\ UNCHANGED <<articles, chunks, nextArticleId, faiss_index, faiss_cache, search_cache, served,
                       now, rpcVars, orchVars, rateVars, txVars>>

NextRerank ==
    \E n \in 1..MaxCandidates, top_k \in 1..MaxCandidates :
        \E results \in [1..n -> [similarity : {30, 50, 80}]],
           scores \in [1..n -> {-500, -100, 0, 50, 100, 300}] :
            RerankResults(results, scores, top_k)

SpecRerank == InitOrch /\ [][NextRerank]_vars

\* C34: after reranking, a candidate's final score is 0.4 times its prior
\* score plus 0.6 times its normalized rerank score, where a raw rerank score
\* inside [0,1] is used as is and a raw score above 1 or below 0 is rescaled
\* to (score + 10) / 20
C34_RerankBlend ==
    lastOp.op = "rerank" =>
        \A i \in 1..Len(lastOp.result) :
            LET raw == lastOp.result[i].raw
                normalized == IF raw >= 0 /\ raw <= 100 THEN raw ELSE (raw + 1000) \div 20
            IN lastOp.result[i].similarity = lastOp.result[i].prior * 4 + normalized * 6

----------------------------------------------------------------------------
(* store_article calls of two processes on one database file *)

\* lines 441-462: the connection is opened and the two SELECTs run; they read
\* the committed rows
StoreCheck(p, article) ==
    /\ store_calls[p].pc = "idle"
    /\ store_calls' = [store_calls EXCEPT ![p] =
           IF LinkExists(articles, article.link) \/ SemanticDuplicate(articles, article, now)
           THEN [pc |-> "done", article |-> article, ok |-> FALSE, how |-> "duplicate"]
           ELSE [pc |-> "checked", article |-> article, ok |-> FALSE, how |-> ""]]
    /\ UNCHANGED <<ragVars, rpcVars, orchVars, rateVars>>

\* lines 464-491: enrichment and INSERT OR IGNORE. The INSERT opens the
\* transaction and takes the write lock of the file: while another connection
\* holds it the statement waits, and past the connection's timeout it raises
\* "database is locked". With the lock, a row of the same link makes the
\* INSERT a no-op (rowcount 0). raises: an exception before the INSERT.
StoreInsert(p, outcome) ==
    LET locked == \E q \in DOMAIN store_calls : q # p /\ store_calls[q].pc = "inserted"
        call == store_calls[p]
    IN /\ call.pc = "checked"
       /\ outcome = "locked" => locked
       /\ outcome = "insert" => ~locked
       /\ store_calls' = [store_calls EXCEPT ![p] =
              IF outcome = "raises" THEN [call EXCEPT !.pc = "done", !.how = "raised"]
              ELSE IF outcome = "locked" THEN [call EXCEPT !.pc = "done", !.how = "locked"]
              ELSE IF LinkExists(articles, call.article.link)
              THEN [call EXCEPT !.pc = "done", !.how = "ignored"]
              ELSE [call EXCEPT !.pc = "inserted"]]
       /\ UNCHANGED <<ragVars, rpcVars, orchVars, rateVars>>

\* lines 493-519: the chunk rows and the commit, which publishes the article
\* row and its chunk rows and releases the lock; on an exception the
\* connection is closed without a commit and the rows are rolled back
StoreCommit(p, raises) ==
    LET call == store_calls[p]
        row == [id |-> nextArticleId, link |-> call.article.link,
                title |-> call.article.title, pub_date |-> call.article.pub_date,
                category |-> classify_category(call.article.title)]
        newChunks == chunks \cup NewChunkRows(chunks, nextArticleId, call.article)
    IN /\ call.pc = "inserted"
       /\ ~raises => nextArticleId <= MaxArticles
       /\ IF raises
          THEN /\ store_calls' = [store_calls EXCEPT ![p] =
                                     [call EXCEPT !.pc = "done", !.how = "raised"]]
               /\ UNCHANGED <<articles, chunks, nextArticleId, faiss_index, served>>
          ELSE /\ store_calls' = [store_calls EXCEPT ![p] =
                                     [call EXCEPT !.pc = "done", !.ok = TRUE, !.how = "stored"]]
               /\ articles' = articles \cup {row}
               /\ chunks' = newChunks
               /\ nextArticleId' = nextArticleId + 1
               /\ faiss_index' = IF faiss_index.present
                                 THEN _rebuild_faiss_index(faiss_index, newChunks)
                                 ELSE faiss_index
               /\ served' = [t \in SearchInputs |-> <<>>]
       /\ UNCHANGED <<faiss_cache, search_cache, now, lastOp, rpcVars, orchVars, rateVars>>

NextTx ==
    \/ \E p \in DOMAIN store_calls, a \in ArticleInputs : StoreCheck(p, a)
    \/ \E p \in DOMAIN store_calls, outcome \in {"insert", "locked", "raises"} :
           StoreInsert(p, outcome)
    \/ \E p \in DOMAIN store_calls, raises \in BOOLEAN : StoreCommit(p, raises)

SpecTx == InitOrch /\ [][NextTx]_vars

\* both calls are for one link, both passed the link-exists check, and both
\* have returned
Raced ==
    /\ \A p \in DOMAIN store_calls :
           store_calls[p].pc = "done" /\ store_calls[p].how # "duplicate"
    /\ \A p, q \in DOMAIN store_calls :
           store_calls[p].article.link = store_calls[q].article.link

\* the rows of the link of the two calls
RacedRows == {r \in articles : \A p \in DOMAIN store_calls : r.link = store_calls[p].article.link}

====
